---- MODULE Spec2Model ----
(***************************************************************************)
(* Doc2Pdf: the per-user conversion sessions of the Telegram bot           *)
(* (telegram_bot.py), the temporary-file ledgers of UserSession, and the   *)
(* image converter the handlers call (image_converter.py).                 *)
(*                                                                         *)
(* A handler is an async function: the code between two awaits runs        *)
(* without interruption and is one action; at an await the handler is      *)
(* suspended, and the action that resumes it chooses how the awaited call  *)
(* ended (returned, raised, timed out).  Consecutive awaits with no        *)
(* statement between them that touches the session or the disk are one     *)
(* suspension.  A trailing await is folded into the action before it.      *)
(***************************************************************************)
EXTENDS Integers, Sequences, FiniteSets, TLC

\* Size of the pool of temporary file names handed out by tempfile.
NumPaths == 2

\* Files no session and no handler refers to any more that may lie on the
\* disk at once: the leaked files are never looked at again, and the bound
\* keeps their number finite.
MaxOrphans == 1

\* How many times a handler may be started while another one is suspended
\* at an await.
MaxOverlaps == 1

\* How many files the directory holds that the converter is called on
\* directly.
NumInputs == 3

\* The longest list of images handed to convert_multiple_images directly.
MaxImages == 2

\* Telegram user ids that talk to the bot.
Users == {1, 2}

\* Handler invocations that may be in progress at the same time.  Spec runs
\* one handler at a time (slot 1); SpecConc and SpecSame use both slots.
Slots == {1, 2}

Levels == {"HIGH", "MEDIUM", "LOW"}

\* The members of Language (bot_types.py).
Languages == {"EN", "DE", "FA"}

\* CompressionLevel.name, the member's name instead of its value.
CompressionLevel_name(level) == level

\* CompressionLevel.value
CompressionLevel_value(level) ==
    CASE level = "HIGH" -> "high"
      [] level = "MEDIUM" -> "medium"
      [] level = "LOW" -> "low"

\* CompressionLevel.quality, of the class in telegram_bot.py
CompressionLevel_quality(level) ==
    CASE level = "HIGH" -> 95
      [] level = "MEDIUM" -> 85
      [] level = "LOW" -> 70

\* CompressionLevel.title, of the class in telegram_bot.py
CompressionLevel_title(level) ==
    CASE level = "HIGH" -> "High Quality (95%)"
      [] level = "MEDIUM" -> "Medium Quality (85%)"
      [] level = "LOW" -> "Low Quality (70%)"

\* CompressionLevel.quality, of the class in bot_types.py
bot_types_CompressionLevel_quality(level) ==
    CASE level = "HIGH" -> 95
      [] level = "MEDIUM" -> 85
      [] level = "LOW" -> 70

\* CompressionLevel.title, of the class in bot_types.py
bot_types_CompressionLevel_title(level) ==
    CASE level = "HIGH" -> "High Quality (95%)"
      [] level = "MEDIUM" -> "Medium Quality (85%)"
      [] level = "LOW" -> "Low Quality (70%)"

\* "compress.value if compress else None"
compress_value(compress) ==
    IF compress = "none" THEN "none" ELSE CompressionLevel_value(compress)

VARIABLES
    user_sessions,  \* ImageToPdfBot.user_sessions: user id -> UserSession
    disk,           \* the files that exist
    debug_mode,     \* ImageToPdfBot.debug_mode
    task,           \* task[k]: the handler invocation in slot k
    overlaps,       \* handlers started so far while another was suspended
    call,           \* the last call made on a converter or on PdfTools directly
    pages           \* pages[p]: the pages of the PDF file p, where PdfTools
                    \* is called directly

vars == <<user_sessions, disk, debug_mode, task, overlaps, call, pages>>

Range(s) == {s[i] : i \in 1..Len(s)}

(***************************************************************************)
(* File names.  A file is <<kind, n>>.                                     *)
(***************************************************************************)
NoFile == <<"none", 0>>
\* tempfile.NamedTemporaryFile(delete=False, suffix=suffix).name
Tmp(suffix, i) == <<suffix, i>>
\* image_path.replace('.', '_compressed.')
CompressedPath(p) == <<"cmp", p[2]>>
\* f"{base_name}.pdf", in the working directory
SinglePdfPath(p) == <<"base_pdf", p[2]>>
\* "combined_images.pdf", in the working directory: one name for all users
CombinedPdfPath == <<"combined", 0>>
\* os.path.join(debug_dir, f"user_{id}_{timestamp}_{n}images.pdf")
DebugPdfPath(u) == <<"dbg", u>>
\* the output inside the handler's tempfile.TemporaryDirectory()
ToolOutPath(k) == <<"tooldir", k>>

(***************************************************************************)
(* UserSession                                                             *)
(***************************************************************************)
\* created: how many UserSession objects have been constructed for this
\* user id, this one included.
\* language: the locale of sessions.py (line 21), Language.EN at first.
UserSession(user_id, created) ==
    [user_id |-> user_id,
     temp_files |-> <<>>,
     compression_setting |-> "MEDIUM",
     pdf_files |-> <<>>,
     language |-> "EN",
     created |-> created]

\* An add_temp_file that assigns the list instead of appending to it.
add_temp_file_assign(s, file_path) ==
    [s EXCEPT !.temp_files = <<file_path>>]

add_temp_file(s, file_path) ==
    [s EXCEPT !.temp_files = Append(@, file_path)]

\* An add_pdf_file that registers the PDF among the pending images.
add_pdf_file_as_image(s, file_path) ==
    [s EXCEPT !.temp_files = Append(@, file_path)]

add_pdf_file(s, file_path) ==
    [s EXCEPT !.pdf_files = Append(@, file_path)]

get_file_count(s) == Len(s.temp_files)

get_pdf_count(s) == Len(s.pdf_files)

\* The loop "for file_path in files: try: os.unlink(file_path) except: ..."
\* on disk d.  os.unlink fails on a file that does not exist and on the
\* files in failing (the deletions the environment makes fail); the failure
\* is caught and the loop goes on.  att: the paths unlink was called on.
RECURSIVE unlink_each(_, _, _)
unlink_each(files, d, failing) ==
    IF files = <<>> THEN [disk |-> d, att |-> {}]
    ELSE LET p == Head(files)
             d1 == IF p \in d /\ p \notin failing THEN d \ {p} ELSE d
             r == unlink_each(Tail(files), d1, failing)
         IN [disk |-> r.disk, att |-> r.att \cup {p}]

\* The same loop without the try/except: the first failing deletion ends it.
RECURSIVE unlink_until_error(_, _, _)
unlink_until_error(files, d, failing) ==
    IF files = <<>> THEN [disk |-> d, att |-> {}, raised |-> FALSE]
    ELSE LET p == Head(files)
         IN IF p \in d /\ p \notin failing
            THEN LET r == unlink_until_error(Tail(files), d \ {p}, failing)
                 IN [disk |-> r.disk, att |-> r.att \cup {p}, raised |-> r.raised]
            ELSE [disk |-> d, att |-> {p}, raised |-> TRUE]

\* A clear_temp_files whose deletion failure escapes: the list is not cleared.
clear_temp_files_reraise(s, d, failing) ==
    LET r == unlink_until_error(s.temp_files, d, failing)
    IN [session |-> IF r.raised THEN s ELSE [s EXCEPT !.temp_files = <<>>],
        disk |-> r.disk, att |-> r.att]

clear_temp_files(s, d, failing) ==
    LET r == unlink_each(s.temp_files, d, failing)
    IN [session |-> [s EXCEPT !.temp_files = <<>>],
        disk |-> r.disk, att |-> r.att]

clear_pdf_files(s, d, failing) ==
    LET r == unlink_each(s.pdf_files, d, failing)
    IN [session |-> [s EXCEPT !.pdf_files = <<>>],
        disk |-> r.disk, att |-> r.att]

(***************************************************************************)
(* ImageToPdfBot.get_user_session                                          *)
(***************************************************************************)
\* A get_user_session without the membership test: a new session each call.
get_user_session_always_new(sessions, user_id) ==
    [v \in DOMAIN sessions \cup {user_id} |->
        IF v = user_id
        THEN UserSession(user_id, IF user_id \in DOMAIN sessions
                                  THEN sessions[user_id].created + 1 ELSE 1)
        ELSE sessions[v]]

\* The session map after get_user_session(user_id); the session returned is
\* the map's value at user_id.
get_user_session(sessions, user_id) ==
    IF user_id \in DOMAIN sessions THEN sessions
    ELSE [v \in DOMAIN sessions \cup {user_id} |->
            IF v = user_id THEN UserSession(user_id, 1) ELSE sessions[v]]

(***************************************************************************)
(* ImageToPdfConverter (image_converter.py)                                *)
(***************************************************************************)
\* ImageToPdfConverter.COMPRESSION_QUALITY
COMPRESSION_QUALITY ==
    [quality \in {"high", "medium", "low"} |->
        CASE quality = "high" -> 95
          [] quality = "medium" -> 85
          [] quality = "low" -> 70]

\* A fallback that takes an unknown quality name for the lowest quality.
known_quality_or_low(quality) ==
    IF quality \notin DOMAIN COMPRESSION_QUALITY THEN "low" ELSE quality

\* "if quality not in self.COMPRESSION_QUALITY: quality = 'medium'"
known_quality(quality) ==
    IF quality \notin DOMAIN COMPRESSION_QUALITY THEN "medium" ELSE quality

\* compress_image(image_path, quality): the path of the working image, the
\* disk afterwards and the JPEG quality the copy was saved with (0: no copy).
\* ok: Image.open and img.save succeed on this file.  On any exception the
\* original path is returned and nothing is written.
compress_image(image_path, quality, d, ok) ==
    IF ok /\ image_path \in d
    THEN [path |-> CompressedPath(image_path),
          disk |-> d \cup {CompressedPath(image_path)},
          saved_quality |-> COMPRESSION_QUALITY[known_quality(quality)]]
    ELSE [path |-> image_path, disk |-> d, saved_quality |-> 0]

\* ImageToPdfConverter.SUPPORTED_FORMATS
SUPPORTED_FORMATS == {".jpg", ".jpeg", ".png", ".bmp", ".tiff", ".gif", ".webp"}

\* str.lower on the extensions that occur.
lower(ext) ==
    CASE ext = ".JPG" -> ".jpg"
      [] ext = ".PDF" -> ".pdf"
      [] ext = ".DOCX" -> ".docx"
      [] OTHER -> ext

\* is_supported_format: the extension of the lower-cased path is one of the
\* supported formats.  The first component of a file name is its extension
\* when the file is an input image.
is_supported_format(file_path) == lower(file_path[1]) \in SUPPORTED_FORMATS

\* The text of an exception, as the sequence of its parts.
FileNotFoundError(image_path) == <<"Image file not found: ", image_path>>
UnsupportedFormatError(image_path) == <<"Unsupported image format: ", image_path>>
NoImagePathsError == <<"No image paths provided">>
\* whatever img2pdf.convert raises
EncoderError == <<"img2pdf">>
NoError == <<>>

\* A cleanup of the compressed copy that runs on the success path only.
unlink_compressed_on_success(working_image_path, image_path, compress, d, encOK) ==
    IF encOK /\ compress /= "none" /\ working_image_path /= image_path
    THEN d \ {working_image_path}
    ELSE d

\* "if compress and working_image_path != image_path: os.unlink(...)", which
\* convert_single_image runs after the PDF is written (lines 150-152) and in
\* its except clause (lines 169-174).
unlink_compressed(working_image_path, image_path, compress, d, encOK) ==
    IF compress /= "none" /\ working_image_path /= image_path
    THEN d \ {working_image_path}
    ELSE d

\* convert_single_image(image_path, output_path, compress) on disk d.
\* compOK: the inputs whose compression succeeds; encOK: img2pdf.convert
\* succeeds.  open(output_path, "wb") creates the output before the encoder
\* runs.  raised: the call ends with an exception, whose text is error;
\* encoded: the images handed to img2pdf.convert.
convert_single_image(image_path, output_path, compress, d, compOK, encOK) ==
    IF image_path \notin d
    THEN [raised |-> TRUE, pdf_path |-> NoFile, disk |-> d, image_count |-> 0,
          encoded |-> <<>>, error |-> FileNotFoundError(image_path),
          saved_quality |-> <<>>, compression_used |-> "none"]
    ELSE IF ~is_supported_format(image_path)
    THEN [raised |-> TRUE, pdf_path |-> NoFile, disk |-> d, image_count |-> 0,
          encoded |-> <<>>, error |-> UnsupportedFormatError(image_path),
          saved_quality |-> <<>>, compression_used |-> "none"]
    ELSE LET out == IF output_path = NoFile THEN SinglePdfPath(image_path)
                    ELSE output_path
             c == IF compress /= "none"
                  THEN compress_image(image_path, compress, d,
                                      image_path \in compOK)
                  ELSE [path |-> image_path, disk |-> d, saved_quality |-> 0]
             d2 == c.disk \cup {out}
             d3 == unlink_compressed(c.path, image_path, compress, d2, encOK)
         IN [raised |-> ~encOK,
             pdf_path |-> IF encOK THEN out ELSE NoFile,
             disk |-> d3,
             image_count |-> 0,
             encoded |-> <<c.path>>,
             error |-> IF encOK THEN NoError ELSE EncoderError,
             saved_quality |-> <<c.saved_quality>>,
             compression_used |-> IF encOK THEN compress ELSE "none"]

\* Working images collected in reverse order.
working_image_paths_reversed(image_paths, compress, d, compOK) ==
    [i \in 1..Len(image_paths) |->
        LET p == image_paths[Len(image_paths) + 1 - i]
        IN IF compress /= "none"
           THEN compress_image(p, compress, d, p \in compOK).path
           ELSE p]

\* The working images of convert_multiple_images, in input order.
working_image_paths(image_paths, compress, d, compOK) ==
    [i \in 1..Len(image_paths) |->
        IF compress /= "none"
        THEN compress_image(image_paths[i], compress, d,
                            image_paths[i] \in compOK).path
        ELSE image_paths[i]]

\* The JPEG quality each working image was saved with (0: not compressed).
working_image_qualities(image_paths, compress, d, compOK) ==
    [i \in 1..Len(image_paths) |->
        IF compress /= "none"
        THEN compress_image(image_paths[i], compress, d,
                            image_paths[i] \in compOK).saved_quality
        ELSE 0]

\* A cleanup loop that stops after the first working path.
cleanup_compressed_first_only(working, img_path, compress, d) ==
    IF compress /= "none" /\ working /= <<>> /\ working[1] /= img_path
    THEN d \ {working[1]}
    ELSE d

\* The cleanup loops of convert_multiple_images (lines 229-233, 250-256):
\* img_path is the loop variable left over from the compression loop, that
\* is the last input; every other working path that exists is unlinked.
cleanup_compressed(working, img_path, compress, d) ==
    IF compress /= "none"
    THEN d \ {w \in Range(working) : w /= img_path}
    ELSE d

\* A validation loop that tests the existence of each path and not its
\* format.
validate_images_exists_only(image_paths, d) ==
    LET M == {i \in DOMAIN image_paths : image_paths[i] \notin d}
    IN IF M = {} THEN NoError
       ELSE FileNotFoundError(image_paths[CHOOSE i \in M : \A j \in M : i <= j])

\* The validation loop of convert_multiple_images (lines 193-197): the text
\* of the exception the first invalid path raises, NoError when all pass.
RECURSIVE validate_images(_, _)
validate_images(image_paths, d) ==
    IF image_paths = <<>> THEN NoError
    ELSE IF Head(image_paths) \notin d
    THEN FileNotFoundError(Head(image_paths))
    ELSE IF ~is_supported_format(Head(image_paths))
    THEN UnsupportedFormatError(Head(image_paths))
    ELSE validate_images(Tail(image_paths), d)

\* convert_multiple_images(image_paths, output_path, compress) on disk d.
convert_multiple_images(image_paths, output_path, compress, d, compOK, encOK) ==
    IF image_paths = <<>>
    THEN [raised |-> TRUE, pdf_path |-> NoFile, disk |-> d, image_count |-> 0,
          encoded |-> <<>>, error |-> NoImagePathsError,
          saved_quality |-> <<>>, compression_used |-> "none"]
    ELSE IF validate_images(image_paths, d) /= NoError
    THEN [raised |-> TRUE, pdf_path |-> NoFile, disk |-> d, image_count |-> 0,
          encoded |-> <<>>, error |-> validate_images(image_paths, d),
          saved_quality |-> <<>>, compression_used |-> "none"]
    ELSE LET out == IF output_path = NoFile THEN CombinedPdfPath ELSE output_path
             working == working_image_paths(image_paths, compress, d, compOK)
             d1 == IF compress /= "none"
                   THEN d \cup {w \in Range(working) : w[1] = "cmp"}
                   ELSE d
             d2 == d1 \cup {out}
             d3 == cleanup_compressed(working, image_paths[Len(image_paths)],
                                      compress, d2)
         IN [raised |-> ~encOK,
             pdf_path |-> IF encOK THEN out ELSE NoFile,
             disk |-> d3,
             image_count |-> IF encOK THEN Len(image_paths) ELSE 0,
             encoded |-> working,
             error |-> IF encOK THEN NoError ELSE EncoderError,
             saved_quality |-> working_image_qualities(image_paths, compress,
                                                       d, compOK),
             compression_used |-> IF encOK THEN compress ELSE "none"]

\* A failure result that still carries the compression level.
ConversionResult_partial(r, compress) ==
    IF r.raised
    THEN [success |-> FALSE, pdf_path |-> NoFile, compression_used |-> compress,
          image_count |-> 0, error_message |-> r.error]
    ELSE [success |-> TRUE, pdf_path |-> r.pdf_path, compression_used |-> compress,
          image_count |-> r.image_count, error_message |-> NoError]

\* ConversionResult as built by _convert_single_image and
\* _convert_multiple_images from the converter's return value or exception.
\* Absent fields: NoFile, "None", 0, NoError; error_message is str(e).
ConversionResult(r, compress) ==
    IF r.raised
    THEN [success |-> FALSE, pdf_path |-> NoFile, compression_used |-> "None",
          image_count |-> 0, error_message |-> r.error]
    ELSE [success |-> TRUE, pdf_path |-> r.pdf_path, compression_used |-> compress,
          image_count |-> r.image_count, error_message |-> NoError]

NoResult ==
    [success |-> FALSE, pdf_path |-> NoFile, compression_used |-> "None",
     image_count |-> 0, error_message |-> NoError]

\* The loop of batch_convert_directory over image_files (lines 290-300) on
\* disk d: each file is converted to f"{base_name}.pdf" without compression,
\* an exception is logged and the loop goes on.  bad: the files img2pdf
\* cannot encode.  attempted: the files convert_single_image was called on.
RECURSIVE batch_convert_files(_, _, _)
batch_convert_files(image_files, d, bad) ==
    IF image_files = <<>>
    THEN [converted_files |-> <<>>, disk |-> d, attempted |-> <<>>]
    ELSE LET img_path == Head(image_files)
             r == convert_single_image(img_path, SinglePdfPath(img_path), "none",
                                       d, {}, img_path \notin bad)
             rest == batch_convert_files(Tail(image_files), r.disk, bad)
         IN [converted_files |-> IF r.raised THEN rest.converted_files
                                 ELSE <<r.pdf_path>> \o rest.converted_files,
             disk |-> rest.disk,
             attempted |-> <<img_path>> \o rest.attempted]

\* batch_convert_directory(directory_path) with output_dir = None, the disk
\* d being the directory.  exists: the directory exists; listing: the
\* supported files of os.listdir, in the order it lists them.
batch_convert_directory(exists, listing, d, bad) ==
    IF ~exists
    THEN [raised |-> TRUE, converted_files |-> <<>>, disk |-> d,
          attempted |-> <<>>]
    ELSE LET r == batch_convert_files(listing, d, bad)
         IN [raised |-> FALSE, converted_files |-> r.converted_files,
             disk |-> r.disk, attempted |-> r.attempted]

(***************************************************************************)
(* PdfTools (pdf_tools.py).  pg[p]: the pages of the PDF file p, in order. *)
(***************************************************************************)
\* The longest PDF, in pages.
MaxPages == 3

\* The longest list of PDFs handed to merge_pdfs.
MaxMerge == 3

\* The longest list of page ranges handed to split_pdf.
MaxRanges == 2

\* "merged.pdf", in the working directory
MergedPdfPath == <<"merged", 0>>
\* f"{output_prefix}_page_{n}.pdf", output_prefix being the base name
SplitPagePath(pdf_path, n) == <<"page", pdf_path[2], n>>
\* f"{output_prefix}_{start}-{end}.pdf"
SplitRangePath(pdf_path, start, end) == <<"range", pdf_path[2], start, end>>

\* The text of the exceptions of PdfTools and of PdfReader.
NoPdfFilesError == <<"No PDF files provided">>
PdfNotFoundError(pdf_path) == <<"PDF not found: ", pdf_path>>
InvalidPageRangeError(start, end, total_pages) ==
    <<"Invalid page range: ", start, "-", end, " (total pages: ", total_pages, ")">>
\* whatever PdfReader(path) raises on a file that is missing or is no PDF
PdfReadError(path) == <<"PdfReader", path>>

\* The file system after "with open(out_path, 'wb') as f: writer.write(f)".
write_pdf(out_path, writer, pg) ==
    [p \in DOMAIN pg \cup {out_path} |-> IF p = out_path THEN writer ELSE pg[p]]

\* A merge loop that puts the pages of each input before those already added.
RECURSIVE merge_pages_prepend(_, _, _, _, _)
merge_pages_prepend(pdf_paths, writer, d, pg, bad) ==
    IF pdf_paths = <<>> THEN [writer |-> writer, failed |-> NoFile]
    ELSE LET path == Head(pdf_paths)
         IN IF path \notin d \/ path \in bad
            THEN [writer |-> writer, failed |-> path]
            ELSE merge_pages_prepend(Tail(pdf_paths), pg[path] \o writer, d, pg, bad)

\* The loop of merge_pdfs (lines 21-25) from the writer so far: every page
\* of every input is added, input after input.  bad: the files PdfReader
\* cannot read.  failed: the path whose PdfReader raised, NoFile if none.
RECURSIVE merge_pages(_, _, _, _, _)
merge_pages(pdf_paths, writer, d, pg, bad) ==
    IF pdf_paths = <<>> THEN [writer |-> writer, failed |-> NoFile]
    ELSE LET path == Head(pdf_paths)
         IN IF path \notin d \/ path \in bad
            THEN [writer |-> writer, failed |-> path]
            ELSE merge_pages(Tail(pdf_paths), writer \o pg[path], d, pg, bad)

\* A merge_pdfs that returns without writing when it is given no input.
merge_pdfs_silent(pdf_paths, d, pg, bad) ==
    LET m == merge_pages(pdf_paths, <<>>, d, pg, bad)
    IN IF pdf_paths = <<>> \/ m.failed /= NoFile
       THEN [raised |-> m.failed /= NoFile, error |-> IF m.failed /= NoFile
                                                    THEN PdfReadError(m.failed)
                                                    ELSE NoError,
             output |-> NoFile, disk |-> d, pages |-> pg]
       ELSE [raised |-> FALSE, error |-> NoError, output |-> MergedPdfPath,
             disk |-> d \cup {MergedPdfPath},
             pages |-> write_pdf(MergedPdfPath, m.writer, pg)]

\* merge_pdfs(pdf_paths) with output_path = None, on disk d.
merge_pdfs(pdf_paths, d, pg, bad) ==
    IF pdf_paths = <<>>
    THEN [raised |-> TRUE, error |-> NoPdfFilesError, output |-> NoFile,
          disk |-> d, pages |-> pg]
    ELSE LET m == merge_pages(pdf_paths, <<>>, d, pg, bad)
         IN IF m.failed /= NoFile
            THEN [raised |-> TRUE, error |-> PdfReadError(m.failed),
                  output |-> NoFile, disk |-> d, pages |-> pg]
            ELSE [raised |-> FALSE, error |-> NoError, output |-> MergedPdfPath,
                  disk |-> d \cup {MergedPdfPath},
                  pages |-> write_pdf(MergedPdfPath, m.writer, pg)]

\* A page loop that names the outputs by the 0-based index.
RECURSIVE split_each_page_zero_based(_, _, _, _, _)
split_each_page_zero_based(pdf_path, src, i, d, pg) ==
    IF i >= Len(src) THEN [outputs |-> <<>>, disk |-> d, pages |-> pg]
    ELSE LET out_path == SplitPagePath(pdf_path, i)
             rest == split_each_page_zero_based(pdf_path, src, i + 1,
                                                d \cup {out_path},
                                                write_pdf(out_path, <<src[i + 1]>>, pg))
         IN [outputs |-> <<out_path>> \o rest.outputs,
             disk |-> rest.disk, pages |-> rest.pages]

\* The loop "for i in range(total_pages)" of split_pdf (lines 62-68) from
\* index i on: reader.pages[i], the (i+1)-th page of src, is written alone
\* to f"{output_prefix}_page_{i+1}.pdf".
RECURSIVE split_each_page(_, _, _, _, _)
split_each_page(pdf_path, src, i, d, pg) ==
    IF i >= Len(src) THEN [outputs |-> <<>>, disk |-> d, pages |-> pg]
    ELSE LET out_path == SplitPagePath(pdf_path, i + 1)
             rest == split_each_page(pdf_path, src, i + 1, d \cup {out_path},
                                     write_pdf(out_path, <<src[i + 1]>>, pg))
         IN [outputs |-> <<out_path>> \o rest.outputs,
             disk |-> rest.disk, pages |-> rest.pages]

\* A range test that does not compare start with end.
invalid_page_range_unordered(start, end, total_pages) ==
    start < 1 \/ end > total_pages

\* "if start < 1 or end > total_pages or start > end" (line 72)
invalid_page_range(start, end, total_pages) ==
    start < 1 \/ end > total_pages \/ start > end

\* A range loop that skips an invalid range and raises after the last one.
RECURSIVE split_ranges_raise_late(_, _, _, _, _)
split_ranges_raise_late(pdf_path, src, page_ranges, d, pg) ==
    IF page_ranges = <<>>
    THEN [raised |-> FALSE, error |-> NoError, outputs |-> <<>>,
          disk |-> d, pages |-> pg]
    ELSE LET start == Head(page_ranges)[1]
             end == Head(page_ranges)[2]
             out_path == SplitRangePath(pdf_path, start, end)
             writer == [j \in 1..(end - start + 1) |-> src[start - 1 + j]]
         IN IF invalid_page_range(start, end, Len(src))
            THEN LET rest == split_ranges_raise_late(pdf_path, src,
                                                     Tail(page_ranges), d, pg)
                 IN [raised |-> TRUE,
                     error |-> InvalidPageRangeError(start, end, Len(src)),
                     outputs |-> <<>>, disk |-> rest.disk, pages |-> rest.pages]
            ELSE LET rest == split_ranges_raise_late(pdf_path, src,
                                 Tail(page_ranges), d \cup {out_path},
                                 write_pdf(out_path, writer, pg))
                 IN [raised |-> rest.raised, error |-> rest.error,
                     outputs |-> IF rest.raised THEN <<>>
                                 ELSE <<out_path>> \o rest.outputs,
                     disk |-> rest.disk, pages |-> rest.pages]

\* The loop "for start, end in page_ranges" of split_pdf (lines 71-80): an
\* invalid range raises; a valid one writes reader.pages[start-1 .. end-1],
\* the pages start..end of src, to f"{output_prefix}_{start}-{end}.pdf".
\* outputs: the list returned, nothing when the call raises.
RECURSIVE split_ranges(_, _, _, _, _)
split_ranges(pdf_path, src, page_ranges, d, pg) ==
    IF page_ranges = <<>>
    THEN [raised |-> FALSE, error |-> NoError, outputs |-> <<>>,
          disk |-> d, pages |-> pg]
    ELSE LET start == Head(page_ranges)[1]
             end == Head(page_ranges)[2]
             out_path == SplitRangePath(pdf_path, start, end)
             writer == [j \in 1..(end - start + 1) |-> src[start - 1 + j]]
         IN IF invalid_page_range(start, end, Len(src))
            THEN [raised |-> TRUE,
                  error |-> InvalidPageRangeError(start, end, Len(src)),
                  outputs |-> <<>>, disk |-> d, pages |-> pg]
            ELSE LET rest == split_ranges(pdf_path, src, Tail(page_ranges),
                                          d \cup {out_path},
                                          write_pdf(out_path, writer, pg))
                 IN [raised |-> rest.raised, error |-> rest.error,
                     outputs |-> IF rest.raised THEN <<>>
                                 ELSE <<out_path>> \o rest.outputs,
                     disk |-> rest.disk, pages |-> rest.pages]

\* split_pdf(pdf_path, page_ranges) with output_prefix = None, on disk d.
\* page_ranges = <<>>: None or an empty list ("if not page_ranges").
split_pdf(pdf_path, page_ranges, d, pg, bad) ==
    IF pdf_path \notin d
    THEN [raised |-> TRUE, error |-> PdfNotFoundError(pdf_path),
          outputs |-> <<>>, disk |-> d, pages |-> pg]
    ELSE IF pdf_path \in bad
    THEN [raised |-> TRUE, error |-> PdfReadError(pdf_path),
          outputs |-> <<>>, disk |-> d, pages |-> pg]
    ELSE IF page_ranges = <<>>
    THEN LET r == split_each_page(pdf_path, pg[pdf_path], 0, d, pg)
         IN [raised |-> FALSE, error |-> NoError, outputs |-> r.outputs,
             disk |-> r.disk, pages |-> r.pages]
    ELSE split_ranges(pdf_path, pg[pdf_path], page_ranges, d, pg)

\* No call has been made on the converter or on PdfTools directly.  f: the
\* method called; before: the disk when it was called; result: the
\* ConversionResult of the wrapper; converted_files, attempted: of
\* batch_convert_directory; pdf_paths, page_ranges: the arguments of
\* merge_pdfs and split_pdf; outputs: the paths returned; error: the text
\* of the exception raised; saved_quality: the JPEG quality each working
\* image was saved with.
(***************************************************************************)
(* DocumentToPdfConverter and HtmlToPdfConverter                           *)
(***************************************************************************)
\* SUPPORTED_FORMATS of DocumentToPdfConverter, TextToPdfConverter and
\* HtmlToPdfConverter.
DOCUMENT_FORMATS == {".docx", ".pptx", ".xlsx"}
TEXT_FORMATS == {".txt", ".md"}
HTML_FORMATS == {".html", ".htm"}

\* What subprocess.run returns is a record of the exit code of the tool, its
\* captured output (stripped), and whether it wrote its PDF.

\* The output path used when the caller gives none.
DocPdfPath(doc_path) == <<"doc.pdf", doc_path[2]>>

\* "result.stderr.strip() or result.stdout.strip()"
captured(run) == IF run.stderr /= "" THEN run.stderr ELSE run.stdout

\* The text of the exceptions of the two converters.
DocumentNotFoundError(doc_path) == <<"Document not found: ", doc_path>>
UnsupportedDocumentError(doc_path) == <<"Unsupported document format: ", doc_path>>
SofficeMissingError ==
    <<"LibreOffice (soffice) not found. Install LibreOffice to enable DOCX/PPTX/XLSX conversion.">>
LibreOfficeFailedError(run) == <<"LibreOffice conversion failed: ", captured(run)>>
NoPdfProducedError == <<"LibreOffice did not produce a PDF output.">>
HtmlNotFoundError(html_path) == <<"HTML file not found: ", html_path>>
UnsupportedHtmlError(html_path) == <<"Unsupported HTML format: ", html_path>>
WkhtmltopdfMissingError ==
    <<"wkhtmltopdf not found. Install it to enable HTML/URL conversion.">>
\* os.path.getsize on a path where no file is
FileSizeError(path) == <<"[Errno 2] No such file or directory: ", path>>
WkhtmltopdfFailedError(run) ==
    <<IF captured(run) /= "" THEN captured(run) ELSE "wkhtmltopdf failed">>

\* Checks that look for the tool before they look at the suffix.
convert_document_check_tool_first(doc_path, d, soffice) ==
    IF doc_path \notin d THEN DocumentNotFoundError(doc_path)
    ELSE IF ~soffice THEN SofficeMissingError
    ELSE IF lower(doc_path[1]) \notin DOCUMENT_FORMATS
    THEN UnsupportedDocumentError(doc_path)
    ELSE NoError

\* The checks of convert_document before the tool is run (lines 39-44):
\* the exception raised, NoError if none.  soffice: shutil.which finds it.
convert_document_check(doc_path, d, soffice) ==
    IF doc_path \notin d THEN DocumentNotFoundError(doc_path)
    ELSE IF lower(doc_path[1]) \notin DOCUMENT_FORMATS
    THEN UnsupportedDocumentError(doc_path)
    ELSE IF ~soffice THEN SofficeMissingError
    ELSE NoError

\* convert_document(doc_path, output_path) on disk d; output_path = NoFile:
\* None.  LibreOffice writes into a temporary directory, and the PDF is
\* moved to the output path only after a zero exit (lines 74-80).
\* written: the paths the call created or replaced.
convert_document(doc_path, output_path, d, soffice, run) ==
    LET e == convert_document_check(doc_path, d, soffice)
        out == IF output_path = NoFile THEN DocPdfPath(doc_path) ELSE output_path
    IN IF e /= NoError
       THEN [raised |-> TRUE, error |-> e, ran |-> FALSE, pdf_path |-> NoFile,
             disk |-> d, written |-> {}]
       ELSE IF run.returncode /= 0
       THEN [raised |-> TRUE, error |-> LibreOfficeFailedError(run), ran |-> TRUE,
             pdf_path |-> NoFile, disk |-> d, written |-> {}]
       ELSE IF ~run.generated
       THEN [raised |-> TRUE, error |-> NoPdfProducedError, ran |-> TRUE,
             pdf_path |-> NoFile, disk |-> d, written |-> {}]
       ELSE [raised |-> FALSE, error |-> NoError, ran |-> TRUE, pdf_path |-> out,
             disk |-> d \cup {out}, written |-> {out}]

\* The checks of convert_html_file before the tool is run (lines 35-45).
convert_html_file_check(html_path, d, wkhtmltopdf) ==
    IF html_path \notin d THEN HtmlNotFoundError(html_path)
    ELSE IF lower(html_path[1]) \notin HTML_FORMATS
    THEN UnsupportedHtmlError(html_path)
    ELSE IF ~wkhtmltopdf THEN WkhtmltopdfMissingError
    ELSE NoError

\* convert_html_file(html_path, output_path): wkhtmltopdf writes to the
\* output path itself, so a run that fails may have written it.
convert_html_file(html_path, output_path, d, wkhtmltopdf, run) ==
    LET e == convert_html_file_check(html_path, d, wkhtmltopdf)
        out == IF output_path = NoFile THEN DocPdfPath(html_path) ELSE output_path
        w == IF run.generated THEN {out} ELSE {}
    IN IF e /= NoError
       THEN [raised |-> TRUE, error |-> e, ran |-> FALSE, pdf_path |-> NoFile,
             disk |-> d, written |-> {}]
       ELSE IF run.returncode /= 0
       THEN [raised |-> TRUE, error |-> WkhtmltopdfFailedError(run), ran |-> TRUE,
             pdf_path |-> NoFile, disk |-> d \cup w, written |-> w]
       ELSE IF ~run.generated
       THEN \* os.path.getsize(output_path) raises unless the file was there
            [raised |-> out \notin d,
             error |-> IF out \notin d THEN FileSizeError(out) ELSE NoError,
             ran |-> TRUE, pdf_path |-> IF out \in d THEN out ELSE NoFile,
             disk |-> d, written |-> {}]
       ELSE [raised |-> FALSE, error |-> NoError, ran |-> TRUE, pdf_path |-> out,
             disk |-> d \cup {out}, written |-> {out}]

(***************************************************************************)
(* Error messages of the bot                                               *)
(***************************************************************************)
\* A rendered message is the literal text before the interpolated
\* exception text, that text, and the literal text after it (the leading
\* cross mark of each message is left out).
NoText == [prefix |-> "", error_message |-> NoError, suffix |-> ""]

\* An error message that leaves the exception text out.
conversion_error_no_detail(error_message) ==
    [prefix |-> "Error during conversion: ", error_message |-> NoError,
     suffix |-> "\nPlease try again."]

\* f"Error during conversion: {error_message}\nPlease try again."
conversion_error(error_message) ==
    [prefix |-> "Error during conversion: ", error_message |-> error_message,
     suffix |-> "\nPlease try again."]

\* The literal text in front of "{e}" in the except block of each tool
\* handler (lines 532, 556, 579, 601, 626, 667).
tool_failed_prefix ==
    [merge |-> "Merge failed: ", split |-> "Split failed: ",
     compress_pdf |-> "Compression failed: ", ocr |-> "OCR failed: ",
     ocr_image |-> "OCR failed: ", url2pdf |-> "URL conversion failed: "]

\* A failure message that names the tool and leaves the exception text out.
tool_failed_no_detail(tool, e) ==
    [prefix |-> tool_failed_prefix[tool], error_message |-> NoError, suffix |-> ""]

\* f"Merge failed: {e}" and its like
tool_failed(tool, e) ==
    [prefix |-> tool_failed_prefix[tool], error_message |-> e, suffix |-> ""]

\* str(e) of the exceptions the handlers themselves can raise.
AttributeError(class, name) ==
    <<"'", class, "' object has no attribute '", name, "'">>
IndexError == <<"list index out of range">>
UnlinkError(path) == <<"[Errno 2] No such file or directory: ", path>>
\* whatever a call of the Telegram API raises
TelegramError == <<"telegram">>
\* whatever pikepdf raises on a file that is no PDF
PikepdfError(path) == <<"pikepdf", path>>

NoCall ==
    [f |-> "none", image_paths |-> <<>>, compress |-> "none", before |-> {},
     compOK |-> {}, bad |-> {}, raised |-> FALSE, result |-> NoResult,
     encoded |-> <<>>, converted_files |-> <<>>, attempted |-> <<>>,
     pdf_paths |-> <<>>, page_ranges |-> <<>>, outputs |-> <<>>,
     error |-> NoError, saved_quality |-> <<>>,
     doc_path |-> NoFile, output_path |-> NoFile, tool |-> FALSE,
     run |-> [returncode |-> 0, stderr |-> "", stdout |-> "", generated |-> FALSE],
     ran |-> FALSE, written |-> {}]

(***************************************************************************)
(* Handler invocations                                                     *)
(***************************************************************************)
\* u: the user of the update; h: the handler; pc: where it is suspended
\* ("idle": no handler in the slot, "done": the handler has ended and has
\* not yet returned to the dispatcher); out: how it ended.  level,
\* image_count, compression, path, result: the handler's locals.  reply: the last message it sent.  History of the invocation:
\* entry, the pending files when it was entered; given, the inputs passed to
\* the converter or tool; encoded, the images the converter handed to the
\* encoder; att, the paths its cleanup called os.unlink on;
\* failing, those of them whose deletion the environment made fail.
\* error: the text of the exception the converter or tool call raised in
\* this invocation; text: the error message the handler rendered for the
\* user.  args: context.args of the command; language: the OCR language
\* the handler passed to the tool; file_extension: the lower-cased suffix
\* of the name of a document that arrived.
IdleTask ==
    [u |-> 0, h |-> "none", pc |-> "idle", out |-> "none", level |-> "None",
     image_count |-> 0, compression |-> "None", path |-> NoFile,
     result |-> NoResult, reply |-> "none",
     entry |-> <<>>, given |-> <<>>, encoded |-> <<>>, att |-> {}, failing |-> {},
     error |-> NoError, text |-> NoText, args |-> <<>>, language |-> "none",
     file_extension |-> "none"]

NewTask(u, h) == [IdleTask EXCEPT !.u = u, !.h = h]

Ended(t, out) == [t EXCEPT !.pc = "done", !.out = out, !.path = NoFile]

\* A handler may start in slot k.
CanStart(k) == task[k].pc = "idle"

\* The handler in slot k is suspended with record t.
Suspend(k, t) == task' = [task EXCEPT ![k] = t]

\* The handler in slot k ends with record t (t.pc = "done").
Finish(k, t) == task' = [task EXCEPT ![k] = t]

\* The handler that ended returns to the dispatcher, which frees the slot.
Return(k) ==
    /\ task[k].pc = "done"
    /\ task' = [task EXCEPT ![k] = IdleTask]
    /\ UNCHANGED <<user_sessions, disk, debug_mode, overlaps, call, pages>>

\* tempfile never returns the name of an existing file; names no longer in
\* use are handed out again, lowest first.  Referenced: every path some
\* session or running handler still refers to.
FreeIdx ==
    LET Referenced ==
            UNION {Range(user_sessions[u].temp_files)
                     \cup Range(user_sessions[u].pdf_files)
                       : u \in DOMAIN user_sessions}
            \cup {task[k].path : k \in Slots}
    IN {i \in 1..NumPaths :
          \A suffix \in {".jpg", ".pdf"} :
              Tmp(suffix, i) \notin disk /\ Tmp(suffix, i) \notin Referenced}

\* A temporary file with a fixed name instead of a fresh one.
NewTmp_fixed_name(suffix) == Tmp(suffix, 1)

NewTmp(suffix) == Tmp(suffix, CHOOSE i \in FreeIdx : \A j \in FreeIdx : i <= j)

Init ==
    /\ user_sessions = << >>
    /\ disk = {}
    /\ debug_mode \in BOOLEAN
    /\ task = [k \in Slots |-> IdleTask]
    /\ overlaps = 0
    /\ call = NoCall
    /\ pages = << >>

(***************************************************************************)
(* /clear                                                                  *)
(***************************************************************************)
\* A clear_command that forgets the pending PDFs.
clear_command_temp_only(s, d, failing) ==
    clear_temp_files(s, d, failing)

\* A clear_command that also puts the compression level back to MEDIUM.
clear_command_reset_level(s, d, failing) ==
    LET c1 == clear_temp_files(s, d, failing)
        c2 == clear_pdf_files(c1.session, c1.disk, failing)
    IN [session |-> [c2.session EXCEPT !.compression_setting = "MEDIUM"],
        disk |-> c2.disk, att |-> c1.att \cup c2.att]

\* The body of clear_command on session s: both ledgers are cleared.
clear_command(s, d, failing) ==
    LET c1 == clear_temp_files(s, d, failing)
        c2 == clear_pdf_files(c1.session, c1.disk, failing)
    IN [session |-> c2.session, disk |-> c2.disk, att |-> c1.att \cup c2.att]

ClearCommand(u, k) ==
    /\ CanStart(k)
    /\ LET us1 == get_user_session(user_sessions, u)
           session == us1[u]
           pending == session.temp_files \o session.pdf_files
       IN \E failing \in SUBSET (Range(pending) \cap disk) :
            LET c == clear_command(session, disk, failing)
            IN /\ user_sessions' = [us1 EXCEPT ![u] = c.session]
               /\ disk' = c.disk
               /\ Finish(k, [Ended(NewTask(u, "clear"), "ok") EXCEPT
                                !.reply = "files_cleared", !.entry = pending,
                                !.att = c.att, !.failing = failing])
    /\ UNCHANGED debug_mode

(***************************************************************************)
(* /convert                                                                *)
(***************************************************************************)
\* A guard that never rejects.
NoImagesPending_never(session) == FALSE

\* "if not session.get_file_count()"
NoImagesPending(session) == get_file_count(session) = 0

\* "if not session.get_pdf_count()"
NoPdfsPending(session) == get_pdf_count(session) = 0

ConvertCommand(u, k) ==
    /\ CanStart(k)
    /\ LET us1 == get_user_session(user_sessions, u)
           session == us1[u]
       IN /\ user_sessions' = us1
          /\ Finish(k, IF NoImagesPending(session)
                       THEN [Ended(NewTask(u, "convert"), "no_input") EXCEPT
                               !.reply = "no_images"]
                       ELSE [Ended(NewTask(u, "convert"), "ok") EXCEPT
                               !.reply = "compression_options",
                               !.entry = session.temp_files])
    /\ UNCHANGED <<disk, debug_mode>>

(***************************************************************************)
(* /convert_now                                                            *)
(***************************************************************************)
\* convert_now_command up to its first await (lines 468-480), entered by
\* the invocation t: directly, or from set_compression.
ConvertNowEnter(k, t) ==
    LET us1 == get_user_session(user_sessions, t.u)
        session == us1[t.u]
    IN /\ user_sessions' = us1
       /\ IF NoImagesPending(session)
          THEN Finish(k, [Ended(t, "no_input") EXCEPT !.reply = "no_images"])
          ELSE Suspend(k, [t EXCEPT !.pc = "cn_processing",
                                    !.image_count = get_file_count(session),
                                    !.compression = session.compression_setting,
                                    !.reply = "processing_start",
                                    !.entry = session.temp_files])
       /\ UNCHANGED <<disk, debug_mode>>

ConvertNowCommand(u, k) ==
    /\ CanStart(k)
    /\ ConvertNowEnter(k, NewTask(u, "convert_now"))

\* The finally block of convert_now_command (line 512) on disk d, ending
\* the invocation t1.
ConvertNowCleanup(k, t1, d) ==
    \E failing \in SUBSET (Range(user_sessions[t1.u].temp_files) \cap d) :
        LET c == clear_temp_files(user_sessions[t1.u], d, failing)
        IN /\ user_sessions' = [user_sessions EXCEPT ![t1.u] = c.session]
           /\ disk' = c.disk
           /\ Finish(k, [Ended(t1, t1.out) EXCEPT !.att = c.att, !.failing = failing])
           /\ UNCHANGED debug_mode

\* A handler that never passes an output path: the converter then writes
\* next to the image (or combined_images.pdf).
conversion_output_path_default(debug, user_id) == NoFile

\* The output path convert_now_command passes to the converter: a file in
\* self.debug_dir when debug mode is on (lines 484-487), none otherwise
\* (lines 496-501).
conversion_output_path(debug, user_id) ==
    IF debug THEN DebugPdfPath(user_id) ELSE NoFile

\* The processing message was sent or not (line 478, before the try block);
\* then the conversion (lines 482-501) and the first step of
\* _send_conversion_results (lines 709-722).
ConvertNowConvert(k) ==
    LET t == task[k]
        session == user_sessions[t.u]
    IN
    /\ t.pc = "cn_processing"
    /\ \E sent \in BOOLEAN :
        IF ~sent
        THEN /\ Finish(k, Ended(t, "raised"))
             /\ UNCHANGED <<user_sessions, disk, debug_mode>>
        ELSE IF t.image_count = 1 /\ session.temp_files = <<>>
        THEN \* session.temp_files[0] raises IndexError, caught at line 506
             /\ Suspend(k, [t EXCEPT !.pc = "cn_final_await", !.out = "exception",
                                     !.reply = "conversion_error",
                                     !.text = conversion_error(IndexError)])
             /\ UNCHANGED <<user_sessions, disk, debug_mode>>
        ELSE \E compOK \in SUBSET Range(session.temp_files), encOK \in BOOLEAN :
             LET output_path == conversion_output_path(debug_mode, t.u)
                 r == IF t.image_count = 1
                      THEN convert_single_image(session.temp_files[1], output_path,
                                                compress_value(t.compression),
                                                disk, compOK, encOK)
                      ELSE convert_multiple_images(session.temp_files, output_path,
                                                   compress_value(t.compression),
                                                   disk, compOK, encOK)
                 result == ConversionResult(r, t.compression)
             IN /\ disk' = r.disk
                /\ Suspend(k,
                      [t EXCEPT
                         !.result = result,
                         !.encoded = r.encoded,
                         !.given = IF t.image_count = 1
                                   THEN <<session.temp_files[1]>>
                                   ELSE session.temp_files,
                         !.pc = IF result.success THEN "cn_delivering"
                                ELSE "cn_final_await",
                         !.out = IF result.success THEN "converted"
                                 ELSE "failure_result",
                         !.reply = IF result.success THEN "document"
                                   ELSE "conversion_error",
                         !.error = r.error,
                         !.text = IF result.success THEN NoText
                                  ELSE conversion_error(result.error_message)])
                /\ UNCHANGED <<user_sessions, debug_mode>>

\* A delivery failure reported with the message of a failed conversion.
delivery_failure_reply_generic(outcome) == "conversion_error"

\* The message _send_conversion_results edits in when reply_document did
\* not go through: asyncio.TimeoutError (lines 723-725) or any other
\* exception (lines 727-730).
delivery_failure_reply(outcome) ==
    IF outcome = "timeout" THEN "upload_timed_out" ELSE "error_sending"

\* The delivery of the PDF ended (lines 715-730); on success the messages of
\* lines 732-755 and the removal of the PDF (lines 757-761).
ConvertNowDelivered(k) ==
    LET t == task[k]
        pdf == t.result.pdf_path
    IN
    /\ t.pc = "cn_delivering"
    /\ \E outcome \in {"ok", "timeout", "error"} :
        IF outcome /= "ok"
        THEN ConvertNowCleanup(k,
                [t EXCEPT !.out = outcome,
                          !.reply = delivery_failure_reply(outcome)],
                disk)
        ELSE IF debug_mode
        THEN /\ Suspend(k, [t EXCEPT !.pc = "cn_final_await", !.out = "ok",
                                     !.reply = "debug_saved"])
             /\ UNCHANGED <<user_sessions, disk, debug_mode>>
        ELSE IF pdf \in disk
        THEN ConvertNowCleanup(k,
                [t EXCEPT !.out = "ok", !.reply = "file_size_info"],
                disk \ {pdf})
        ELSE \* os.unlink(result.pdf_path) raises, caught at line 506
             /\ Suspend(k, [t EXCEPT !.pc = "cn_final_await", !.out = "exception",
                                     !.reply = "conversion_error",
                                     !.text = conversion_error(UnlinkError(pdf))])
             /\ UNCHANGED <<user_sessions, disk, debug_mode>>

\* The last message of the handler was sent or not; then the finally block.
ConvertNowFinally(k) ==
    /\ task[k].pc = "cn_final_await"
    /\ ConvertNowCleanup(k, task[k], disk)

(***************************************************************************)
(* /compress_high, /compress_medium, /compress_low                         *)
(***************************************************************************)
\* A set_compression that does not store the level.
set_compression_not_stored(session, compression) == session

\* "session.compression_setting = compression" (line 435)
set_compression(session, compression) ==
    [session EXCEPT !.compression_setting = compression]

SetCompression(u, k, compression) ==
    /\ CanStart(k)
    /\ LET us1 == get_user_session(user_sessions, u)
       IN user_sessions' = [us1 EXCEPT ![u] = set_compression(us1[u], compression)]
    /\ Suspend(k, [NewTask(u, "set_compression") EXCEPT
                     !.pc = "sc_reply", !.level = compression,
                     !.reply = "compression_set"])
    /\ UNCHANGED <<disk, debug_mode>>

\* The confirmation was sent or not (line 437); then convert_now_command.
SetCompressionReplied(k) ==
    /\ task[k].pc = "sc_reply"
    /\ \E sent \in BOOLEAN :
        IF sent
        THEN ConvertNowEnter(k, task[k])
        ELSE /\ Finish(k, Ended(task[k], "raised"))
             /\ UNCHANGED <<user_sessions, disk, debug_mode>>

(***************************************************************************)
(* /ocr_image                                                              *)
(***************************************************************************)
\* context.args of /ocr and /ocr_image: nothing, or a language code.
OcrArgs == {<<>>, <<"deu">>}

\* 'language = "eng"; if context.args: language = context.args[0]'
\* (lines 610-612, 638-640)
ocr_language(args) == IF args = <<>> THEN "eng" ELSE args[1]

OcrImageCommand(u, k) ==
    /\ CanStart(k)
    /\ \E args \in OcrArgs :
       LET us1 == get_user_session(user_sessions, u)
           session == us1[u]
       IN /\ user_sessions' = us1
          /\ IF NoImagesPending(session)
             THEN Finish(k, [Ended(NewTask(u, "ocr_image"), "no_input") EXCEPT
                               !.reply = "no_images_found"])
             ELSE Suspend(k, [NewTask(u, "ocr_image") EXCEPT
                               !.pc = "oi_processing",
                               !.path = session.temp_files[Len(session.temp_files)],
                               !.reply = "performing_ocr",
                               !.entry = session.temp_files,
                               !.args = args,
                               !.language = ocr_language(args)])
    /\ UNCHANGED <<disk, debug_mode>>

\* The exception converter.ocr_image raises (image_converter.py lines
\* 316-341): the image is missing, or anything else went wrong.
ocr_image_error(image_path, d, ocrOK) ==
    IF image_path \notin d THEN FileNotFoundError(image_path)
    ELSE IF ~ocrOK THEN <<"OCR failed: ", "pytesseract">>
    ELSE NoError

\* The processing message was sent or not (line 646); converter.ocr_image
\* on the source image (line 649) reads the file and writes nothing.
OcrImageRun(k) ==
    LET t == task[k]
    IN
    /\ t.pc = "oi_processing"
    /\ \E sent \in BOOLEAN, ocrOK \in BOOLEAN :
        Suspend(k,
            IF ~sent
            THEN [t EXCEPT !.pc = "oi_final_await", !.out = "exception",
                           !.reply = "ocr_failed",
                           !.text = tool_failed("ocr_image", TelegramError)]
            ELSE IF ocr_image_error(t.path, disk, ocrOK) = NoError
            THEN [t EXCEPT !.pc = "oi_final_await", !.out = "ok",
                           !.given = <<t.path>>, !.reply = "ocr_completed"]
            ELSE [t EXCEPT !.pc = "oi_final_await", !.out = "tool_error",
                           !.given = <<t.path>>, !.reply = "ocr_failed",
                           !.error = ocr_image_error(t.path, disk, ocrOK),
                           !.text = tool_failed("ocr_image",
                                        ocr_image_error(t.path, disk, ocrOK))])
    /\ UNCHANGED <<user_sessions, disk, debug_mode>>

\* A finally block that removes only the image that was read.
OcrImageFinallySourceOnly(k) ==
    LET t == task[k]
    IN
    /\ t.pc = "oi_final_await"
    /\ \E failing \in SUBSET (Range(user_sessions[t.u].temp_files) \cap disk) :
        LET r == unlink_each(<<t.path>>, disk, failing)
        IN /\ user_sessions' = [user_sessions EXCEPT
                 ![t.u].temp_files =
                     SelectSeq(@, LAMBDA p : p /= t.path)]
           /\ disk' = r.disk
           /\ Finish(k, [Ended(t, t.out) EXCEPT !.att = r.att, !.failing = failing])
    /\ UNCHANGED debug_mode

\* The finally block of ocr_image_command (line 670).
OcrImageFinally(k) ==
    LET t == task[k]
    IN
    /\ t.pc = "oi_final_await"
    /\ \E failing \in SUBSET (Range(user_sessions[t.u].temp_files) \cap disk) :
        LET c == clear_temp_files(user_sessions[t.u], disk, failing)
        IN /\ user_sessions' = [user_sessions EXCEPT ![t.u] = c.session]
           /\ disk' = c.disk
           /\ Finish(k, [Ended(t, t.out) EXCEPT !.att = c.att, !.failing = failing])
    /\ UNCHANGED debug_mode

(***************************************************************************)
(* /merge, /split, /compress_pdf, /ocr                                     *)
(***************************************************************************)
PdfTools == {"merge", "split", "compress_pdf", "ocr"}

\* The PDFs the tool is called on: merge takes session.pdf_files, the
\* others session.pdf_files[-1].
tool_source(tool, pdf_files) ==
    IF tool = "merge" THEN pdf_files ELSE <<pdf_files[Len(pdf_files)]>>

\* A cleanup that removes only the PDFs the tool was called on.
pdf_tool_cleanup_source_only(session, given, d, failing) ==
    LET r == unlink_each(given, d, failing)
    IN [session |-> [session EXCEPT !.pdf_files =
                        SelectSeq(@, LAMBDA p : p \notin Range(given))],
        disk |-> r.disk, att |-> r.att]

\* The finally block of the PDF-tool handlers (lines 534, 558, 581, 628).
pdf_tool_cleanup(session, given, d, failing) ==
    clear_pdf_files(session, d, failing)

\* The first of the paths that is missing or is no PDF, NoFile if none.
first_failing(paths, d, bad) ==
    LET F == {i \in DOMAIN paths : paths[i] \notin d \/ paths[i] \in bad}
    IN IF F = {} THEN NoFile
       ELSE paths[CHOOSE i \in F : \A j \in F : i <= j]

\* The exception the tool call of the handler raises on the PDFs in source,
\* NoError if it returns: merge_pdfs reads each path with PdfReader;
\* split_pdf and compress_pdf test os.path.exists first; PdfTools has no
\* method ocr_pdf, so the call of line 618 raises AttributeError.
pdf_tool_error(tool, source, d, bad) ==
    LET p == first_failing(source, d, bad)
    IN IF tool = "ocr" THEN AttributeError("PdfTools", "ocr_pdf")
       ELSE IF p = NoFile THEN NoError
       ELSE IF tool = "merge" THEN PdfReadError(p)
       ELSE IF p \notin d THEN PdfNotFoundError(p)
       ELSE IF tool = "split" THEN PdfReadError(p)
       ELSE PikepdfError(p)

\* The handler up to its first await: the guard, the tool call inside the
\* try block, and the start of the delivery or of the failure message.
PdfToolCommand(u, k, tool) ==
    /\ CanStart(k)
    /\ LET us1 == get_user_session(user_sessions, u)
           session == us1[u]
       IN /\ user_sessions' = us1
          /\ IF NoPdfsPending(session)
             THEN /\ Finish(k, [Ended(NewTask(u, tool), "no_input") EXCEPT
                                  !.reply = "no_pdfs"])
                  /\ UNCHANGED disk
             ELSE \E bad \in SUBSET Range(tool_source(tool, session.pdf_files)),
                     args \in IF tool = "ocr" THEN OcrArgs ELSE {<<>>} :
                  LET source == tool_source(tool, session.pdf_files)
                      e == pdf_tool_error(tool, source, disk, bad)
                      ok == e = NoError
                  IN /\ disk' = IF ok THEN disk \cup {ToolOutPath(k)} ELSE disk
                     /\ Suspend(k, [NewTask(u, tool) EXCEPT
                              !.pc = "pt_await",
                              !.out = IF ok THEN "ok" ELSE "tool_error",
                              !.reply = IF ok THEN "document" ELSE "tool_failed",
                              !.entry = session.pdf_files,
                              !.given = source,
                              !.error = e,
                              !.text = IF ok THEN NoText ELSE tool_failed(tool, e),
                              !.args = args,
                              !.language = IF tool = "ocr" THEN ocr_language(args)
                                           ELSE "none"])
    /\ UNCHANGED debug_mode

\* The delivery or the failure message ended; the finally block; the
\* TemporaryDirectory is removed with the tool's output.
PdfToolFinally(k) ==
    LET t == task[k]
    IN
    /\ t.pc = "pt_await"
    /\ \E delivered \in BOOLEAN,
          failing \in SUBSET (Range(user_sessions[t.u].pdf_files) \cap disk) :
        LET c == pdf_tool_cleanup(user_sessions[t.u], t.given, disk, failing)
        IN /\ user_sessions' = [user_sessions EXCEPT ![t.u] = c.session]
           /\ disk' = c.disk \ {ToolOutPath(k)}
           /\ Finish(k, [Ended(t, IF t.out = "ok" /\ ~delivered
                                  THEN "send_error" ELSE t.out)
                           EXCEPT !.att = c.att, !.failing = failing])
    /\ UNCHANGED debug_mode

(***************************************************************************)
(* /lang                                                                   *)
(***************************************************************************)
\* "lang (set locale from a closed set)": the command stores the locale in
\* the session of its user and confirms it with the lang_set message.
LangCommand(u, k, lang) ==
    /\ CanStart(k)
    /\ LET us1 == get_user_session(user_sessions, u)
       IN user_sessions' = [us1 EXCEPT ![u].language = lang]
    /\ Finish(k, [Ended(NewTask(u, "lang"), "ok") EXCEPT !.reply = "lang_set"])
    /\ UNCHANGED <<disk, debug_mode>>

(***************************************************************************)
(* /url2pdf                                                                *)
(***************************************************************************)
\* url_to_pdf_command up to its first await.  Without an argument it sends
\* the usage text and returns (lines 585-587).  Otherwise line 593 reads
\* self.html_converter inside the try block; __init__ (lines 376-386) sets
\* no such attribute, so the call raises AttributeError and the except
\* block of line 599 renders it.
UrlToPdfCommand(u, k) ==
    /\ CanStart(k)
    /\ \E args \in BOOLEAN :
        IF ~args
        THEN Finish(k, [Ended(NewTask(u, "url2pdf"), "no_input") EXCEPT
                          !.reply = "url_usage"])
        ELSE LET e == AttributeError("ImageToPdfBot", "html_converter")
             IN Suspend(k, [NewTask(u, "url2pdf") EXCEPT
                              !.pc = "up_await", !.out = "tool_error",
                              !.reply = "tool_failed", !.error = e,
                              !.text = tool_failed("url2pdf", e)])
    /\ UNCHANGED <<user_sessions, disk, debug_mode>>

\* The failure message ended (line 601); the TemporaryDirectory is removed
\* and the handler returns.
UrlToPdfFinally(k) ==
    /\ task[k].pc = "up_await"
    /\ Finish(k, Ended(task[k], task[k].out))
    /\ UNCHANGED <<user_sessions, disk, debug_mode>>

(***************************************************************************)
(* A photo arrives: handle_image                                           *)
(***************************************************************************)
\* NamedTemporaryFile(delete=False) creates the file; then the download is
\* awaited (lines 765-774).
HandleImage(u, k) ==
    /\ CanStart(k)
    /\ FreeIdx /= {}
    /\ user_sessions' = get_user_session(user_sessions, u)
    /\ disk' = disk \cup {NewTmp(".jpg")}
    /\ Suspend(k, [NewTask(u, "image") EXCEPT
                     !.pc = "hi_download", !.path = NewTmp(".jpg"),
                     !.entry = get_user_session(user_sessions, u)[u].temp_files])
    /\ UNCHANGED debug_mode

\* list.remove(p): the list without the first occurrence of p.
RECURSIVE remove(_, _)
remove(files, p) ==
    IF files = <<>> THEN <<>>
    ELSE IF Head(files) = p THEN Tail(files)
    ELSE <<Head(files)>> \o remove(Tail(files), p)

\* The download ended (lines 773-774); the path is registered and the image
\* inspected (lines 777-787).  valid: _get_image_info can read the file.
HandleImageDownloaded(k) ==
    LET t == task[k]
    IN
    /\ t.pc = "hi_download"
    /\ \E downloaded \in BOOLEAN, valid \in BOOLEAN :
        IF ~downloaded
        THEN /\ Finish(k, [Ended(t, "raised") EXCEPT !.given = <<t.path>>])
             /\ UNCHANGED <<user_sessions, disk>>
        ELSE /\ user_sessions' =
                   [user_sessions EXCEPT ![t.u] = add_temp_file(@, t.path)]
             /\ disk' = disk \cup {t.path}
             /\ IF valid
                THEN Finish(k, [Ended(t, "ok") EXCEPT
                           !.given = <<t.path>>,
                           !.reply = "image_received",
                           !.image_count = get_file_count(user_sessions[t.u]) + 1])
                ELSE Suspend(k, [t EXCEPT !.pc = "hi_invalid",
                                          !.reply = "invalid_image"])
    /\ UNCHANGED debug_mode

\* The invalid-image message was sent or not (line 787); then the file is
\* unlinked and its path removed (lines 789-790).
HandleImageInvalid(k) ==
    LET t == task[k]
    IN
    /\ t.pc = "hi_invalid"
    /\ \E sent \in BOOLEAN :
        IF sent /\ t.path \in disk /\ t.path \in Range(user_sessions[t.u].temp_files)
        THEN /\ disk' = disk \ {t.path}
             /\ user_sessions' = [user_sessions EXCEPT
                   ![t.u].temp_files = remove(@, t.path)]
             /\ Finish(k, [Ended(t, "rejected") EXCEPT
                             !.given = <<t.path>>, !.att = {t.path}])
        ELSE IF sent /\ t.path \in disk
        THEN \* unlinked, then list.remove raises ValueError
             /\ disk' = disk \ {t.path}
             /\ Finish(k, [Ended(t, "raised") EXCEPT
                             !.given = <<t.path>>, !.att = {t.path}])
             /\ UNCHANGED user_sessions
        ELSE \* the message was not sent, or os.unlink raises
             /\ Finish(k, [Ended(t, "raised") EXCEPT
                             !.given = <<t.path>>,
                             !.att = IF sent THEN {t.path} ELSE {}])
             /\ UNCHANGED <<user_sessions, disk>>
    /\ UNCHANGED debug_mode

(***************************************************************************)
(* A .pdf document arrives: handle_non_image_document, lines 841-850       *)
(***************************************************************************)
HandlePdfDocument(u, k) ==
    /\ CanStart(k)
    /\ FreeIdx /= {}
    /\ disk' = disk \cup {NewTmp(".pdf")}
    /\ Suspend(k, [NewTask(u, "pdf") EXCEPT
                     !.pc = "hp_download", !.path = NewTmp(".pdf")])
    /\ UNCHANGED <<user_sessions, debug_mode>>

\* The download ended (lines 843-844); the session is looked up and the
\* path registered (lines 845-849).
HandlePdfDownloaded(k) ==
    LET t == task[k]
    IN
    /\ t.pc = "hp_download"
    /\ \E downloaded \in BOOLEAN :
        IF ~downloaded
        THEN /\ Finish(k, [Ended(t, "raised") EXCEPT !.given = <<t.path>>])
             /\ UNCHANGED <<user_sessions, disk>>
        ELSE LET us1 == get_user_session(user_sessions, t.u)
             IN /\ user_sessions' = [us1 EXCEPT ![t.u] = add_pdf_file(@, t.path)]
                /\ disk' = disk \cup {t.path}
                /\ Finish(k, [Ended(t, "ok") EXCEPT
                                !.given = <<t.path>>, !.reply = "pdf_received",
                                !.entry = us1[t.u].pdf_files])
    /\ UNCHANGED debug_mode

(***************************************************************************)
(* A document arrives: handle_document (MIME type image/...) and the rest  *)
(* of handle_non_image_document                                            *)
(***************************************************************************)
\* The suffixes of the file names that arrive with an image MIME type, and
\* of those that arrive with another one.
ImageDocumentExts == {".jpg", ".JPG", ".heic"}
OtherDocumentExts == {".pdf", ".PDF", ".docx", ".DOCX", ".txt", ".html", ".xyz"}

\* handle_document up to its first await (lines 794-813): the suffix is
\* lower-cased and looked up in converter.supported_formats; a supported
\* one goes the way of a photo, with the suffix as that of the temporary
\* file.
HandleDocument(u, k, ext) ==
    LET file_extension == lower(ext)
        t0 == [NewTask(u, "image_document") EXCEPT
                 !.file_extension = file_extension]
    IN
    /\ CanStart(k)
    /\ user_sessions' = get_user_session(user_sessions, u)
    /\ IF file_extension \notin SUPPORTED_FORMATS
       THEN /\ Finish(k, [Ended(t0, "rejected") EXCEPT
                            !.reply = "unsupported_format"])
            /\ UNCHANGED disk
       ELSE /\ FreeIdx /= {}
            /\ disk' = disk \cup {NewTmp(file_extension)}
            /\ Suspend(k, [t0 EXCEPT
                     !.pc = "hi_download", !.path = NewTmp(file_extension),
                     !.entry = get_user_session(user_sessions, u)[u].temp_files])
    /\ UNCHANGED debug_mode

\* handle_non_image_document up to its first await (lines 834-866).  A
\* .pdf goes the way of HandlePdfDocument.  For every other suffix line 852
\* reads self.doc_converter, which __init__ (lines 376-386) never sets: the
\* AttributeError is raised outside any try block and leaves the handler.
HandleNonImageDocument(u, k, ext) ==
    LET file_extension == lower(ext)
        t0 == [NewTask(u, "document") EXCEPT !.file_extension = file_extension]
    IN
    /\ CanStart(k)
    /\ IF file_extension = ".pdf"
       THEN /\ FreeIdx /= {}
            /\ disk' = disk \cup {NewTmp(".pdf")}
            /\ Suspend(k, [t0 EXCEPT !.pc = "hp_download",
                                     !.path = NewTmp(".pdf")])
       ELSE /\ Finish(k, [Ended(t0, "raised") EXCEPT
                            !.error = AttributeError("ImageToPdfBot",
                                                     "doc_converter")])
            /\ UNCHANGED disk
    /\ UNCHANGED <<user_sessions, debug_mode>>

(***************************************************************************)
(* The converter called directly, outside a handler: the files of one      *)
(* directory, and one call on them.                                        *)
(***************************************************************************)
\* The files of the directory: the i-th has the extension InputExt(i).
InputFiles ==
    LET InputExt(i) == CASE i % 3 = 1 -> ".jpg"
                         [] i % 3 = 2 -> ".JPG"
                         [] OTHER -> ".xyz"
    IN {<<InputExt(i), i>> : i \in 1..NumInputs}

\* The lists of at most MaxImages files of the directory.
ImageLists == UNION {[1..n -> InputFiles] : n \in 0..MaxImages}

\* The orders in which os.listdir may list the files in S.
Listings(S) ==
    {l \in [1..Cardinality(S) -> S] : \A i, j \in 1..Cardinality(S) :
                                          l[i] = l[j] => i = j}

\* The compress argument of the wrappers: a CompressionLevel or None.
CompressArgs == Levels \cup {"none"}

\* _convert_single_image(image_path, None, compress)
CallConvertSingleImage(image_path, compress, compOK, encOK) ==
    /\ call = NoCall
    /\ LET r == convert_single_image(image_path, NoFile,
                                     compress_value(compress), disk,
                                     compOK, encOK)
       IN /\ disk' = r.disk
          /\ call' = [NoCall EXCEPT !.f = "convert_single_image",
                                    !.image_paths = <<image_path>>,
                                    !.compress = compress,
                                    !.before = disk,
                                    !.compOK = compOK,
                                    !.raised = r.raised,
                                    !.result = ConversionResult(r, compress),
                                    !.encoded = r.encoded,
                                    !.saved_quality = r.saved_quality,
                                    !.error = r.error]
    /\ UNCHANGED <<user_sessions, debug_mode, task, overlaps, pages>>

\* The names of a compression quality that a caller of the module-level
\* functions may pass: those of COMPRESSION_QUALITY, None, and names that
\* are not in the table.
QualityArgs == DOMAIN COMPRESSION_QUALITY \cup {"none", "ultra", "HIGH"}

\* convert_image_to_pdf(image_path, None, compress), the module-level
\* function: ImageToPdfConverter().convert_single_image with the same
\* arguments.
CallConvertImageToPdf(image_path, compress, compOK, encOK) ==
    /\ call = NoCall
    /\ LET r == convert_single_image(image_path, NoFile, compress, disk,
                                     compOK, encOK)
       IN /\ disk' = r.disk
          /\ call' = [NoCall EXCEPT !.f = "convert_image_to_pdf",
                                    !.image_paths = <<image_path>>,
                                    !.compress = compress,
                                    !.before = disk,
                                    !.compOK = compOK,
                                    !.raised = r.raised,
                                    !.encoded = r.encoded,
                                    !.saved_quality = r.saved_quality,
                                    !.outputs = IF r.raised THEN <<>>
                                                ELSE <<r.pdf_path>>,
                                    !.error = r.error]
    /\ UNCHANGED <<user_sessions, debug_mode, task, overlaps, pages>>

\* _convert_multiple_images(image_paths, None, compress)
CallConvertMultipleImages(image_paths, compress, compOK, encOK) ==
    /\ call = NoCall
    /\ LET r == convert_multiple_images(image_paths, NoFile,
                                        compress_value(compress), disk,
                                        compOK, encOK)
       IN /\ disk' = r.disk
          /\ call' = [NoCall EXCEPT !.f = "convert_multiple_images",
                                    !.image_paths = image_paths,
                                    !.compress = compress,
                                    !.before = disk,
                                    !.compOK = compOK,
                                    !.raised = r.raised,
                                    !.result = ConversionResult(r, compress),
                                    !.encoded = r.encoded,
                                    !.saved_quality = r.saved_quality,
                                    !.error = r.error]
    /\ UNCHANGED <<user_sessions, debug_mode, task, overlaps, pages>>

\* batch_convert_directory(directory_path)
CallBatchConvertDirectory(exists, listing, bad) ==
    /\ call = NoCall
    /\ LET r == batch_convert_directory(exists, listing, disk, bad)
       IN /\ disk' = r.disk
          /\ call' = [NoCall EXCEPT !.f = "batch_convert_directory",
                                    !.image_paths = listing,
                                    !.before = disk,
                                    !.bad = bad,
                                    !.raised = r.raised,
                                    !.converted_files = r.converted_files,
                                    !.attempted = r.attempted]
    /\ UNCHANGED <<user_sessions, debug_mode, task, overlaps, pages>>

(***************************************************************************)
(* PdfTools called directly: the PDF files of one directory, and one call  *)
(* on them.                                                                *)
(***************************************************************************)
PdfFiles == {<<".pdf", 1>>, <<".pdf", 2>>, <<".pdf", 3>>}

\* A PDF of n pages: page i of the file p is <<p[2], i>>.
PdfOfPages(p, n) == [i \in 1..n |-> <<p[2], i>>]

\* The lists of at most MaxMerge files of the directory.
PdfLists == UNION {[1..n -> PdfFiles] : n \in 0..MaxMerge}

\* merge_pdfs(pdf_paths)
CallMergePdfs(pdf_paths, bad) ==
    /\ call = NoCall
    /\ LET r == merge_pdfs(pdf_paths, disk, pages, bad)
       IN /\ disk' = r.disk
          /\ pages' = r.pages
          /\ call' = [NoCall EXCEPT !.f = "merge_pdfs",
                                    !.pdf_paths = pdf_paths,
                                    !.before = disk,
                                    !.bad = bad,
                                    !.raised = r.raised,
                                    !.outputs = IF r.output = NoFile THEN <<>>
                                                ELSE <<r.output>>,
                                    !.error = r.error]
    /\ UNCHANGED <<user_sessions, debug_mode, task, overlaps>>

\* The PDF that split_pdf is called on.
SplitSources == {<<".pdf", 1>>}

\* The ends of a page range: from below the first page to beyond the last.
RangeEnds == 0..(MaxPages + 1)

\* The lists of at most MaxRanges page ranges.
RangeLists == UNION {[1..n -> RangeEnds \X RangeEnds] : n \in 0..MaxRanges}

\* split_pdf(pdf_path, page_ranges)
CallSplitPdf(pdf_path, page_ranges, bad) ==
    /\ call = NoCall
    /\ LET r == split_pdf(pdf_path, page_ranges, disk, pages, bad)
       IN /\ disk' = r.disk
          /\ pages' = r.pages
          /\ call' = [NoCall EXCEPT !.f = "split_pdf",
                                    !.pdf_paths = <<pdf_path>>,
                                    !.page_ranges = page_ranges,
                                    !.before = disk,
                                    !.bad = bad,
                                    !.raised = r.raised,
                                    !.outputs = r.outputs,
                                    !.error = r.error]
    /\ UNCHANGED <<user_sessions, debug_mode, task, overlaps>>

\* The documents of the directory and the output path of the caller.
DocFiles == {<<".docx", 1>>, <<".DOCX", 2>>, <<".xyz", 3>>, <<".html", 4>>}
DocOutPath == <<"out.pdf", 0>>

\* The outcomes of a run of the external tool.
Runs == [returncode : {0, 1}, stderr : {"", "diagnostic"},
         stdout : {"", "output"}, generated : BOOLEAN]

\* convert_document(doc_path, output_path)
CallConvertDocument(doc_path, output_path, soffice, run) ==
    /\ call = NoCall
    /\ LET r == convert_document(doc_path, output_path, disk, soffice, run)
       IN /\ disk' = r.disk
          /\ call' = [NoCall EXCEPT !.f = "convert_document",
                                    !.doc_path = doc_path,
                                    !.output_path = output_path,
                                    !.before = disk,
                                    !.tool = soffice,
                                    !.run = run,
                                    !.ran = r.ran,
                                    !.raised = r.raised,
                                    !.error = r.error,
                                    !.written = r.written]
    /\ UNCHANGED <<user_sessions, debug_mode, task, overlaps, pages>>

\* convert_html_file(html_path, output_path)
CallConvertHtmlFile(html_path, output_path, wkhtmltopdf, run) ==
    /\ call = NoCall
    /\ LET r == convert_html_file(html_path, output_path, disk, wkhtmltopdf, run)
       IN /\ disk' = r.disk
          /\ call' = [NoCall EXCEPT !.f = "convert_html_file",
                                    !.doc_path = html_path,
                                    !.output_path = output_path,
                                    !.before = disk,
                                    !.tool = wkhtmltopdf,
                                    !.run = run,
                                    !.ran = r.ran,
                                    !.raised = r.raised,
                                    !.error = r.error,
                                    !.written = r.written]
    /\ UNCHANGED <<user_sessions, debug_mode, task, overlaps, pages>>

(***************************************************************************)
(* Specifications                                                          *)
(***************************************************************************)
\* The files on disk d that neither a session in sessions nor a running
\* handler in tasks refers to.  The PDFs of the debug directory are kept on
\* purpose and are not counted.
Orphans(d, sessions, tasks) ==
    {f \in d : f[1] /= "dbg"}
    \ (UNION {Range(sessions[u].temp_files) \cup Range(sessions[u].pdf_files)
                : u \in DOMAIN sessions}
       \cup {tasks[k].path : k \in Slots}
       \cup {tasks[k].result.pdf_path : k \in {j \in Slots : tasks[j].pc /= "done"}}
       \cup {ToolOutPath(k) : k \in Slots})

OrphanBound == Cardinality(Orphans(disk, user_sessions, task)) <= MaxOrphans

\* A handler that has ended returns before anything else runs.
NoneEnded == \A j \in Slots : task[j].pc /= "done"

\* The dispatcher starts a handler in slot k: counted when it overlaps, that
\* is when some handler is suspended at an await in another slot.
Dispatched(k) ==
    /\ NoneEnded
    /\ IF \E j \in Slots \ {k} : task[j].pc \notin {"idle", "done"}
       THEN overlaps < MaxOverlaps /\ overlaps' = overlaps + 1
       ELSE UNCHANGED overlaps
    /\ UNCHANGED <<call, pages>>

\* A suspended handler is resumed.
Resumed ==
    /\ NoneEnded
    /\ UNCHANGED <<overlaps, call, pages>>

\* An update of user u is dispatched to its handler in slot k.
Start(u, k) ==
    \/ (ClearCommand(u, k) /\ OrphanBound' /\ Dispatched(k))
    \/ (ConvertCommand(u, k) /\ OrphanBound' /\ Dispatched(k))
    \/ (ConvertNowCommand(u, k) /\ OrphanBound' /\ Dispatched(k))
    \/ (\E compression \in Levels :
            SetCompression(u, k, compression) /\ OrphanBound' /\ Dispatched(k))
    \/ (OcrImageCommand(u, k) /\ OrphanBound' /\ Dispatched(k))
    \/ (\E tool \in PdfTools :
            PdfToolCommand(u, k, tool) /\ OrphanBound' /\ Dispatched(k))
    \/ (UrlToPdfCommand(u, k) /\ OrphanBound' /\ Dispatched(k))
    \/ (HandleImage(u, k) /\ OrphanBound' /\ Dispatched(k))
    \/ (HandlePdfDocument(u, k) /\ OrphanBound' /\ Dispatched(k))

\* The suspended handler in slot k is resumed, or the handler that ended
\* returns.
Resume(k) ==
    \/ (ConvertNowConvert(k) /\ OrphanBound' /\ Resumed)
    \/ (ConvertNowDelivered(k) /\ OrphanBound' /\ Resumed)
    \/ (ConvertNowFinally(k) /\ OrphanBound' /\ Resumed)
    \/ (SetCompressionReplied(k) /\ OrphanBound' /\ Resumed)
    \/ (OcrImageRun(k) /\ OrphanBound' /\ Resumed)
    \/ (OcrImageFinally(k) /\ OrphanBound' /\ Resumed)
    \/ (PdfToolFinally(k) /\ OrphanBound' /\ Resumed)
    \/ (UrlToPdfFinally(k) /\ OrphanBound' /\ Resumed)
    \/ (HandleImageDownloaded(k) /\ OrphanBound' /\ Resumed)
    \/ (HandleImageInvalid(k) /\ OrphanBound' /\ Resumed)
    \/ (HandlePdfDownloaded(k) /\ OrphanBound' /\ Resumed)
    \/ Return(k)

\* Application.builder().token(token).build() (line 996) leaves
\* concurrent_updates off: an update is dispatched when the handler of the
\* update before it has returned.  Spec: the updates of one user.
Next ==
    \/ Start(1, 1)
    \/ Resume(1)

Spec == Init /\ [][Next]_vars

\* The updates of all users, one handler at a time, in the default
\* configuration: os.getenv('DEBUG_MODE', 'false') (line 381).
InitUsers ==
    /\ Init
    /\ ~debug_mode

NextUsers ==
    \/ \E u \in Users : Start(u, 1)
    \/ Resume(1)

SpecUsers == InitUsers /\ [][NextUsers]_vars

\* SpecOcr: the updates of one user, /lang among them.
NextOcr ==
    \/ Start(1, 1)
    \/ \E lang \in Languages :
          LangCommand(1, 1, lang) /\ OrphanBound' /\ Dispatched(1)
    \/ Resume(1)

SpecOcr == Init /\ [][NextOcr]_vars

\* SpecFiles: the updates of one user, documents among them.
NextFiles ==
    \/ Start(1, 1)
    \/ \E ext \in ImageDocumentExts :
          HandleDocument(1, 1, ext) /\ OrphanBound' /\ Dispatched(1)
    \/ \E ext \in OtherDocumentExts :
          HandleNonImageDocument(1, 1, ext) /\ OrphanBound' /\ Dispatched(1)
    \/ Resume(1)

SpecFiles == Init /\ [][NextFiles]_vars

\* Handlers of different users interleave at their awaits (the updates of
\* one user are handled one at a time, user u in slot u), in the default
\* configuration.
NextConc ==
    \/ \E u \in Users : Start(u, u)
    \/ \E u \in Users : Resume(u)

SpecConc == InitUsers /\ [][NextConc]_vars

\* SpecOutputs: every user has sent photos, 1 to NumPaths of them, each
\* stored by handle_image under a name of its own and appended to the
\* temp_files of the user's session; then the /convert_now of different
\* users interleave at their awaits, in the default configuration.
InitOutputs ==
    /\ LET ReceivedImages(u, n) ==
              [i \in 1..n |-> Tmp(".jpg", (u - 1) * NumPaths + i)]
       IN \E n \in [Users -> 1..NumPaths] :
            /\ user_sessions = [u \in Users |->
                  [UserSession(u, 1) EXCEPT
                      !.temp_files = ReceivedImages(u, n[u])]]
            /\ disk = UNION {Range(ReceivedImages(u, n[u])) : u \in Users}
    /\ debug_mode = FALSE
    /\ task = [k \in Slots |-> IdleTask]
    /\ overlaps = 0
    /\ call = NoCall
    /\ pages = << >>

NextOutputs ==
    \/ \E u \in Users : ConvertNowCommand(u, u) /\ OrphanBound' /\ Dispatched(u)
    \/ \E u \in Users : ConvertNowConvert(u) /\ OrphanBound' /\ Resumed
    \/ \E u \in Users : ConvertNowDelivered(u) /\ OrphanBound' /\ Resumed
    \/ \E u \in Users : ConvertNowFinally(u) /\ OrphanBound' /\ Resumed
    \/ \E u \in Users : Return(u)

SpecOutputs == InitOutputs /\ [][NextOutputs]_vars

\* Two handlers of the same user interleave at their awaits: the second
\* slot is used while the first is taken.
NextSame ==
    \/ Start(1, 1)
    \/ (task[1].pc /= "idle" /\ Start(1, 2))
    \/ \E k \in Slots : Resume(k)

SpecSame == InitUsers /\ [][NextSame]_vars

\* The converter called directly on a directory that holds any of the input
\* files.
InitConverter ==
    /\ user_sessions = << >>
    /\ disk \in SUBSET InputFiles
    /\ debug_mode = FALSE
    /\ task = [k \in Slots |-> IdleTask]
    /\ overlaps = 0
    /\ call = NoCall
    /\ pages = << >>

NextConverter ==
    \/ \E image_path \in InputFiles, compress \in CompressArgs,
          compOK \in SUBSET InputFiles, encOK \in BOOLEAN :
            CallConvertSingleImage(image_path, compress, compOK \cap {image_path},
                                   encOK)
    \/ \E image_path \in InputFiles, compress \in QualityArgs,
          compOK \in SUBSET InputFiles, encOK \in BOOLEAN :
            CallConvertImageToPdf(image_path, compress, compOK \cap {image_path},
                                  encOK)
    \/ \E image_paths \in ImageLists, compress \in CompressArgs,
          compOK \in SUBSET InputFiles, encOK \in BOOLEAN :
            CallConvertMultipleImages(image_paths, compress,
                                      compOK \cap Range(image_paths), encOK)
    \/ \E exists \in (IF disk = {} THEN BOOLEAN ELSE {TRUE}),
          listing \in Listings({p \in disk : is_supported_format(p)}),
          bad \in SUBSET {p \in disk : is_supported_format(p)} :
            CallBatchConvertDirectory(exists, listing, bad)

SpecConverter == InitConverter /\ [][NextConverter]_vars

\* merge_pdfs called directly on a directory that holds any of the PDF
\* files, each of at most MaxPages pages.
InitMerge ==
    /\ user_sessions = << >>
    /\ disk \in SUBSET PdfFiles
    /\ \E n \in [disk -> 0..MaxPages] :
           pages = [p \in disk |-> PdfOfPages(p, n[p])]
    /\ debug_mode = FALSE
    /\ task = [k \in Slots |-> IdleTask]
    /\ overlaps = 0
    /\ call = NoCall

NextMerge ==
    /\ call = NoCall
    /\ \E pdf_paths \in PdfLists, bad \in SUBSET disk :
           CallMergePdfs(pdf_paths, bad \cap Range(pdf_paths))

SpecMerge == InitMerge /\ [][NextMerge]_vars

\* split_pdf called directly on a PDF of at most MaxPages pages, or on a
\* path where no file is.
InitSplit ==
    /\ user_sessions = << >>
    /\ disk \in SUBSET SplitSources
    /\ \E n \in [disk -> 0..MaxPages] :
           pages = [p \in disk |-> PdfOfPages(p, n[p])]
    /\ debug_mode = FALSE
    /\ task = [k \in Slots |-> IdleTask]
    /\ overlaps = 0
    /\ call = NoCall

NextSplit ==
    /\ call = NoCall
    /\ \E pdf_path \in SplitSources, page_ranges \in RangeLists,
          bad \in SUBSET disk :
           CallSplitPdf(pdf_path, page_ranges, bad)

SpecSplit == InitSplit /\ [][NextSplit]_vars

\* A document converter called directly on a directory that holds some of
\* the documents and, or not, a file at the output path.
InitDocs ==
    /\ user_sessions = << >>
    /\ disk \in SUBSET (DocFiles \cup {DocOutPath})
    /\ pages = << >>
    /\ debug_mode = FALSE
    /\ task = [k \in Slots |-> IdleTask]
    /\ overlaps = 0
    /\ call = NoCall

NextDocs ==
    \/ \E doc_path \in DocFiles, output_path \in {NoFile, DocOutPath},
          soffice \in BOOLEAN, run \in Runs :
            CallConvertDocument(doc_path, output_path, soffice, run)
    \/ \E html_path \in DocFiles, output_path \in {NoFile, DocOutPath},
          wkhtmltopdf \in BOOLEAN, run \in Runs :
            CallConvertHtmlFile(html_path, output_path, wkhtmltopdf, run)

SpecDocs == InitDocs /\ [][NextDocs]_vars

(***************************************************************************)
(* Properties                                                              *)
(***************************************************************************)
\* The invocation t has entered the body of convert_now_command: directly,
\* or from set_compression once the confirmation was sent.
ConvertNowEntered(t) ==
    \/ t.h = "convert_now"
    \/ t.h = "set_compression" /\ t.reply /= "compression_set"

\* The invocation t has run session.clear_temp_files().
RanTempCleanup(t) ==
    \/ t.h = "clear"
    \/ /\ ConvertNowEntered(t) \/ t.h = "ocr_image"
       /\ t.out \notin {"no_input", "raised"}

\* The invocation t has run session.clear_pdf_files().
RanPdfCleanup(t) ==
    \/ t.h = "clear"
    \/ t.h \in PdfTools /\ t.out /= "no_input"

\* The guard rejected the command: the no-input reply msg, and no converter
\* or tool was called.
Rejected(t, msg) ==
    /\ t.pc = "done"
    /\ t.out = "no_input"
    /\ t.reply = msg
    /\ t.given = <<>>
    /\ t.result = NoResult

\* The handlers of the image side and of the PDF side.
ImageSide == {"image", "convert", "convert_now", "set_compression", "ocr_image"}

PdfSide == {"pdf"} \cup PdfTools

\* C1: whenever convert_now_command was entered with at least one pending
\* image, then however it has ended, temp_files is empty and os.unlink was
\* called on every file that was pending.
C1_TempFilesClearedOnEveryExit ==
    \A k \in Slots :
        LET t == task[k]
        IN (t.pc = "done" /\ ConvertNowEntered(t) /\ t.entry /= <<>>)
              => /\ user_sessions[t.u].temp_files = <<>>
                 /\ Range(t.entry) \subseteq t.att

\* C2: whenever merge, split, compress_pdf or ocr was entered with at least
\* one pending PDF, then however the handler has ended (tool success, tool
\* exception, delivery failure), pdf_files is empty and os.unlink was called
\* on every file that was pending.
C2_PdfFilesClearedOnEveryExit ==
    \A k \in Slots :
        LET t == task[k]
        IN (t.pc = "done" /\ t.h \in PdfTools /\ t.entry /= <<>>)
              => /\ user_sessions[t.u].pdf_files = <<>>
                 /\ Range(t.entry) \subseteq t.att

\* A split of the last of two pending PDFs whose delivery failed has ended.
C2_Witness ==
    \E k \in Slots :
        /\ task[k].pc = "done"
        /\ task[k].h = "split"
        /\ task[k].out = "send_error"
        /\ Len(task[k].entry) = 2
        /\ Len(task[k].given) = 1

\* C3: no temporary artifact is orphaned.  When a handler has ended, every
\* file on disk that no pending list names is a file whose deletion the
\* environment made fail in that handler's cleanup; a failed download and a
\* failed or timed-out delivery leave nothing else behind.
C3_NoOrphanedArtifacts ==
    \A k \in Slots :
        task[k].pc = "done"
            => Orphans(disk, user_sessions, task) \subseteq task[k].failing

\* C4: after the adds and a clear, the cleared ledger's count is 0 however
\* many deletions failed, os.unlink was called on exactly the registered
\* paths, and every registered path whose deletion was not made to fail is
\* gone from the disk: a failing deletion neither escapes nor stops the loop.
C4_ClearAfterAdds ==
    \A k \in Slots :
        LET t == task[k]
            session == user_sessions[t.u]
        IN (t.pc = "done" /\ (RanTempCleanup(t) \/ RanPdfCleanup(t)))
              => /\ RanTempCleanup(t) => get_file_count(session) = 0
                 /\ RanPdfCleanup(t) => get_pdf_count(session) = 0
                 /\ t.att = Range(t.entry)
                 /\ \A p \in Range(t.entry) \ t.failing : p \notin disk

\* /clear has ended on two registered files: the deletion of the first was
\* made to fail, the second is gone.
C4_Witness ==
    \E k \in Slots :
        LET t == task[k]
        IN /\ t.pc = "done"
           /\ t.h = "clear"
           /\ Len(t.entry) = 2
           /\ t.entry[1] \in t.failing
           /\ t.entry[1] \in disk
           /\ t.entry[2] \notin t.failing
           /\ t.entry[2] \notin disk

\* C5: a path is in temp_files or pdf_files only while its file exists on
\* disk.
C5_PendingPathsExist ==
    \A u \in DOMAIN user_sessions :
        Range(user_sessions[u].temp_files) \cup Range(user_sessions[u].pdf_files)
            \subseteq disk

\* C6: convert and convert_now entered with no pending image, and merge,
\* split, compress_pdf and ocr entered with no pending PDF, end at once with
\* the no-input reply, call no converter or tool, and leave the session
\* (temp_files, pdf_files, compression_setting) and the disk as they were.
C6_Step ==
    \A k \in Slots :
        LET t == task[k]
            t1 == task'[k]
            before == get_user_session(user_sessions, t1.u)
            enters_image ==
                \/ t.pc = "idle" /\ t1.h \in {"convert", "convert_now"}
                \/ t.pc = "sc_reply" /\ t1.reply /= "compression_set"
            enters_pdf == t.pc = "idle" /\ t1.h \in PdfTools
        IN /\ (enters_image /\ before[t1.u].temp_files = <<>>)
              => /\ Rejected(t1, "no_images")
                 /\ user_sessions' = before
                 /\ disk' = disk
           /\ (enters_pdf /\ before[t1.u].pdf_files = <<>>)
              => /\ Rejected(t1, "no_pdfs")
                 /\ user_sessions' = before
                 /\ disk' = disk

C7_CompressionLevelUsed ==
    \A k \in Slots :
        LET t == task[k]
        IN t.h = "set_compression"
              => /\ user_sessions[t.u].compression_setting = t.level
                 /\ (ConvertNowEntered(t) /\ t.out /= "no_input")
                       => t.compression = t.level
                 /\ t.result.success => t.result.compression_used = t.level

\* /compress_low has converted and delivered the pending images at level LOW.
C7_Witness ==
    \E k \in Slots :
        LET t == task[k]
        IN /\ t.pc = "done"
           /\ t.h = "set_compression"
           /\ t.level = "LOW"
           /\ t.out = "ok"
           /\ t.result.success
           /\ t.result.compression_used = "LOW"
           /\ user_sessions[t.u].compression_setting = "LOW"

\* C8: a step of an image received, convert, convert_now, compress_<level>
\* or ocr_image leaves every pdf_files as it was; a step of a PDF received,
\* merge, split, compress_pdf or ocr leaves every temp_files and every
\* compression_setting as they were.
C8_Step ==
    \A k \in Slots :
        LET t1 == task'[k]
            before == get_user_session(user_sessions, t1.u)
        IN task'[k] /= task[k]
              => /\ t1.h \in ImageSide
                    => \A u \in DOMAIN user_sessions' :
                          user_sessions'[u].pdf_files = before[u].pdf_files
                 /\ t1.h \in PdfSide
                    => \A u \in DOMAIN user_sessions' :
                          /\ user_sessions'[u].temp_files = before[u].temp_files
                          /\ user_sessions'[u].compression_setting
                                = before[u].compression_setting

C8_Decoupled == [][C8_Step]_vars

\* A PDF tool has delivered its output for a user who has a pending image
\* and a compression setting other than the default.
C8_Witness ==
    \E k \in Slots :
        LET t == task[k]
        IN /\ t.pc = "done"
           /\ t.h \in PdfTools
           /\ t.out = "ok"
           /\ user_sessions[t.u].temp_files /= <<>>
           /\ user_sessions[t.u].compression_setting /= "MEDIUM"

\* C9: /clear leaves temp_files and pdf_files of its user empty, has called
\* os.unlink on every file that was in either, and leaves the compression
\* setting as it was.
C9_Step ==
    \A k \in Slots :
        LET t1 == task'[k]
            before == get_user_session(user_sessions, t1.u)[t1.u]
            after == user_sessions'[t1.u]
        IN (task'[k] /= task[k] /\ t1.h = "clear")
              => /\ after.temp_files = <<>>
                 /\ after.pdf_files = <<>>
                 /\ Range(before.temp_files) \cup Range(before.pdf_files)
                       \subseteq t1.att
                 /\ after.compression_setting = before.compression_setting

C9_ClearEmptiesBoth == [][C9_Step]_vars

\* /clear has ended for a user who had a pending image and a pending PDF and
\* a compression setting other than the default.
C9_Witness ==
    \E k \in Slots :
        LET t == task[k]
        IN /\ t.pc = "done"
           /\ t.h = "clear"
           /\ \E p \in Range(t.entry) : p[1] = ".jpg"
           /\ \E p \in Range(t.entry) : p[1] = ".pdf"
           /\ user_sessions[t.u].compression_setting /= "MEDIUM"

\* C10: user_sessions holds one UserSession per user id.  A handler that
\* looks the session of its user up leaves one in the store; the session of
\* an id carries that id, is the first and only one constructed for it, and
\* is what a further lookup returns, the store unchanged; no step removes a
\* session.
C10_Step ==
    /\ DOMAIN user_sessions \subseteq DOMAIN user_sessions'
    /\ \A u \in DOMAIN user_sessions' :
          /\ user_sessions'[u].user_id = u
          /\ user_sessions'[u].created = 1
          /\ get_user_session(user_sessions', u) = user_sessions'
    /\ \A k \in Slots :
          LET t1 == task'[k]
          IN (task'[k] /= task[k] /\ t1.h \notin {"none", "url2pdf"}
                /\ ~(t1.h = "pdf" /\ t1.out /= "ok"))
                => t1.u \in DOMAIN user_sessions'

C11_Step ==
    \A k \in Slots :
        LET A == IF task'[k].u /= 0 THEN task'[k].u ELSE task[k].u
        IN task'[k] /= task[k]
              => \A B \in DOMAIN user_sessions \ {A} :
                    /\ B \in DOMAIN user_sessions'
                    /\ user_sessions'[B] = user_sessions[B]
                    /\ (Range(user_sessions[B].temp_files)
                          \cup Range(user_sessions[B].pdf_files)) \cap disk
                          \subseteq disk'

C11_UsersIndependent == [][C11_Step]_vars

\* /clear of user 1 has deleted that user's pending files while a
\* conversion of user 2 is suspended in its delivery, user 2's pending
\* images still on disk.
C11_Witness ==
    /\ task[1].pc = "done"
    /\ task[1].h = "clear"
    /\ task[1].entry /= <<>>
    /\ task[2].pc = "cn_delivering"
    /\ user_sessions[2].temp_files /= <<>>
    /\ Range(user_sessions[2].temp_files) \subseteq disk
    /\ user_sessions[2].compression_setting /= "MEDIUM"

ConverterHandlers ==
    {"convert_now", "set_compression", "ocr_image"} \cup PdfTools

\* C13: converter and tool calls run off the event loop: the handler is
\* suspended while the call executes, so the step that hands the inputs to
\* the converter or tool is not the step that has its outcome, and other
\* handlers can run in between.
C13_Step ==
    \A k \in Slots :
        (/\ task'[k].h \in ConverterHandlers
         /\ task[k].given = <<>>
         /\ task'[k].given /= <<>>)
            => /\ task'[k].out = task[k].out
               /\ task'[k].result = task[k].result
               /\ disk' = disk

C13_ConversionOffEventLoop == [][C13_Step]_vars

\* C14: end to end.  Each valid image received raises the pending count by
\* one, so n images give count n; a convert_now on n >= 2 pending images
\* whose conversion succeeds has a result with image_count n and
\* compression_used the level L it read from the session, and when it has
\* ended the pending count is 0 and none of the n files is on disk (but
\* those whose deletion the environment made fail).
C14_EndToEnd ==
    \A k \in Slots :
        LET t == task[k]
            session == user_sessions[t.u]
        IN /\ (t.pc = "done" /\ t.h = "image" /\ t.out = "ok")
                => /\ get_file_count(session) = Len(t.entry) + 1
                   /\ t.image_count = Len(t.entry) + 1
           /\ (ConvertNowEntered(t) /\ Len(t.entry) >= 2 /\ t.result.success)
                => /\ t.result.image_count = Len(t.entry)
                   /\ t.result.compression_used = t.compression
                   /\ t.h = "set_compression" => t.compression = t.level
                   /\ t.pc = "done"
                        => /\ get_file_count(session) = 0
                           /\ \A p \in Range(t.entry) \ t.failing : p \notin disk

\* /compress_low on two pending images has ended: the result counts two
\* images at level LOW, nothing is pending and both files are gone.
C14_Witness ==
    \E k \in Slots :
        LET t == task[k]
        IN /\ t.pc = "done"
           /\ t.h = "set_compression"
           /\ t.level = "LOW"
           /\ t.out = "ok"
           /\ Len(t.entry) = 2
           /\ t.result.success
           /\ t.result.image_count = 2
           /\ t.result.compression_used = "LOW"
           /\ user_sessions[t.u].temp_files = <<>>
           /\ Range(t.entry) \cap disk = {}

\* C15: page order is submission order.  A received image goes to the end
\* of temp_files, the others keeping their places; a multi-image conversion
\* is given temp_files as it is and hands the encoder one working image per
\* input, the input itself or its compressed copy, in the same order.
C15_Step ==
    \A k \in Slots :
        LET t == task[k]
            t1 == task'[k]
        IN /\ (t.pc = "hi_download" /\ t1.out \in {"ok", "none"}
                 /\ t1.pc /= "hi_download")
                => user_sessions'[t.u].temp_files
                      = Append(user_sessions[t.u].temp_files, t.path)
           /\ (t.pc = "cn_processing" /\ t1.encoded /= <<>> /\ t.image_count >= 2)
                => /\ t1.given = user_sessions[t.u].temp_files
                   /\ Len(t1.encoded) = Len(t1.given)
                   /\ \A i \in 1..Len(t1.given) :
                         t1.encoded[i] \in {t1.given[i], CompressedPath(t1.given[i])}

C15_PageOrder == [][C15_Step]_vars

\* Two images were received one after the other and converted together:
\* the encoder got the first as it is, then the compressed copy of the
\* second.
C15_Witness ==
    \E k \in Slots :
        LET t == task[k]
        IN /\ t.pc = "cn_delivering"
           /\ Len(t.given) = 2
           /\ t.given[1] /= t.given[2]
           /\ t.given = user_sessions[t.u].temp_files
           /\ t.encoded = <<t.given[1], CompressedPath(t.given[2])>>

\* C16: every ConversionResult produced is wholly a success (output path
\* and compression level set, no error message, and the input count when
\* several files were converted) or wholly a failure (an error message, and
\* no output path, compression level or input count).
C16_ResultShapes ==
    \A k \in Slots :
        LET t == task[k]
            r == t.result
        IN r /= NoResult
              => \/ /\ r.success
                    /\ r.pdf_path /= NoFile
                    /\ r.compression_used \in Levels
                    /\ r.error_message = NoError
                    /\ Len(t.given) >= 2 => r.image_count = Len(t.given)
                 \/ /\ ~r.success
                    /\ r.error_message /= NoError
                    /\ r.pdf_path = NoFile
                    /\ r.compression_used = "None"
                    /\ r.image_count = 0

\* The conversion of two pending images failed in the encoder: a failure
\* result with an error message and nothing else.
C16_Witness ==
    \E k \in Slots :
        LET t == task[k]
        IN /\ t.pc = "cn_final_await"
           /\ Len(t.given) = 2
           /\ ~t.result.success
           /\ t.result.error_message = EncoderError
           /\ t.result.pdf_path = NoFile

\* The last direct call was convert_single_image on a file that exists and
\* whose extension is not supported.
UnsupportedSingleCall ==
    /\ call.f = "convert_single_image"
    /\ call.image_paths[1] \in call.before
    /\ ~is_supported_format(call.image_paths[1])

\* C17: converting a single existing file with an unsupported extension
\* creates no output file and no compressed intermediate, and returns a
\* failure result whose message enumerates the supported extensions.
C17_UnsupportedRejected ==
    UnsupportedSingleCall
        => /\ disk = call.before
           /\ ~call.result.success
           /\ \A ext \in SUPPORTED_FORMATS :
                  \E i \in 1..Len(call.result.error_message) :
                      call.result.error_message[i] = ext

\* The part of C17 the code keeps: no file is created and the result is a
\* failure with a message.
C17_NothingCreated ==
    UnsupportedSingleCall
        => /\ disk = call.before
           /\ ~call.result.success
           /\ call.result.error_message /= NoError

\* The last direct call was batch_convert_directory on a directory that
\* exists.
BatchCall ==
    /\ call.f = "batch_convert_directory"
    /\ call.image_paths /= <<>> \/ ~call.raised

\* The n supported files of the directory the batch was called on.
BatchSupported == {p \in call.before : is_supported_format(p)}

\* The k of them that fail to convert.
BatchFailed == BatchSupported \cap call.bad

\* The output PDFs that exist after the batch.
BatchOutputs == {p \in disk : p[1] = "base_pdf"}

\* C18: for a directory with n supported files of which k fail to convert,
\* batch_convert_directory does not raise, attempts every one of the n
\* files, returns n-k results, and n-k output PDFs exist afterwards.
C18_BatchIsolatesFailures ==
    BatchCall
        => /\ ~call.raised
           /\ Range(call.attempted) = BatchSupported
           /\ Len(call.attempted) = Cardinality(BatchSupported)
           /\ Len(call.converted_files)
                  = Cardinality(BatchSupported) - Cardinality(BatchFailed)
           /\ Cardinality(BatchOutputs)
                  = Cardinality(BatchSupported) - Cardinality(BatchFailed)

\* The part of C18 the code keeps: no exception, every file attempted, n-k
\* results, and every result is an output PDF that exists.
C18_BatchContinues ==
    BatchCall
        => /\ ~call.raised
           /\ Range(call.attempted) = BatchSupported
           /\ Len(call.attempted) = Cardinality(BatchSupported)
           /\ Len(call.converted_files)
                  = Cardinality(BatchSupported) - Cardinality(BatchFailed)
           /\ Range(call.converted_files) \subseteq BatchOutputs

\* C19: when convert_single_image was called with a compression level, the
\* compressed copy of the input does not exist once the call has returned or
\* raised, whether or not the PDF was written.
C19_SingleIntermediateDeleted ==
    (call.f = "convert_single_image" /\ call.compress /= "none")
        => CompressedPath(call.image_paths[1]) \notin disk

\* A compressed copy was made and handed to the encoder, the encoder failed,
\* and the call raised.
C19_Witness ==
    /\ call.f = "convert_single_image"
    /\ call.compress /= "none"
    /\ call.encoded = <<CompressedPath(call.image_paths[1])>>
    /\ call.raised
    /\ call.result.error_message = EncoderError

\* The last direct call was convert_multiple_images with a compression
\* level, and it got as far as compressing its inputs.
CompressedMultiCall ==
    /\ call.f = "convert_multiple_images"
    /\ call.compress /= "none"
    /\ call.encoded /= <<>>

\* C20: when convert_multiple_images was called with a compression level, no
\* compressed copy of any input exists once the call has returned or raised,
\* whatever the outcome of the PDF write and whichever inputs were
\* compressed.
C20_MultiIntermediatesDeleted ==
    (call.f = "convert_multiple_images" /\ call.compress /= "none")
        => \A i \in 1..Len(call.image_paths) :
               CompressedPath(call.image_paths[i]) \notin disk

\* Two different inputs, the first compressed and the second not, and the
\* encoder failed.
C20_Witness ==
    /\ CompressedMultiCall
    /\ Len(call.image_paths) = 2
    /\ call.image_paths[1] /= call.image_paths[2]
    /\ call.compOK = {call.image_paths[1]}
    /\ call.encoded[1] = CompressedPath(call.image_paths[1])
    /\ call.raised

\* The pages of the files in paths, file after file.
RECURSIVE ConcatPages(_)
ConcatPages(paths) ==
    IF paths = <<>> THEN <<>> ELSE pages[Head(paths)] \o ConcatPages(Tail(paths))

\* The page counts of the files in paths, added up.
RECURSIVE SumPages(_)
SumPages(paths) ==
    IF paths = <<>> THEN 0 ELSE Len(pages[Head(paths)]) + SumPages(Tail(paths))

\* The last direct call was merge_pdfs on a non-empty list of PDFs that
\* exist and can be read.
MergeCall ==
    /\ call.f = "merge_pdfs"
    /\ call.pdf_paths /= <<>>
    /\ Range(call.pdf_paths) \subseteq call.before \ call.bad

\* C21: merge_pdfs on a non-empty list of PDFs writes one output whose
\* pages are the pages of the inputs in list order, so that its page count
\* is the sum of the inputs' page counts.
C21_MergeConcatenates ==
    MergeCall
        => /\ ~call.raised
           /\ call.outputs = <<MergedPdfPath>>
           /\ disk = call.before \cup {MergedPdfPath}
           /\ pages[MergedPdfPath] = ConcatPages(call.pdf_paths)
           /\ Len(pages[MergedPdfPath]) = SumPages(call.pdf_paths)

\* Three different PDFs of 2, 3 and 1 pages were merged into one of 6.
C21_Witness ==
    /\ MergeCall
    /\ Len(call.pdf_paths) = 3
    /\ Cardinality(Range(call.pdf_paths)) = 3
    /\ Len(pages[call.pdf_paths[1]]) = 2
    /\ Len(pages[call.pdf_paths[2]]) = 3
    /\ Len(pages[call.pdf_paths[3]]) = 1
    /\ MergedPdfPath \in disk
    /\ Len(pages[MergedPdfPath]) = 6

\* C22: merge_pdfs called with an empty list raises a validation error and
\* writes no output file.
C22_EmptyMergeRejected ==
    (call.f = "merge_pdfs" /\ call.pdf_paths = <<>>)
        => /\ call.raised
           /\ call.error = NoPdfFilesError
           /\ call.outputs = <<>>
           /\ disk = call.before
           /\ MergedPdfPath \notin disk

\* merge_pdfs was called with an empty list in a directory that holds PDFs.
C22_Witness ==
    /\ call.f = "merge_pdfs"
    /\ call.pdf_paths = <<>>
    /\ call.before /= {}
    /\ call.raised

\* The last direct call was split_pdf on a PDF that exists and can be read.
SplitCall ==
    /\ call.f = "split_pdf"
    /\ call.pdf_paths[1] \in call.before \ call.bad

\* The PDF split and its pages.
SplitSource == call.pdf_paths[1]
SourcePages == pages[SplitSource]

\* C23: split_pdf without ranges on an N-page PDF returns N outputs; the
\* i-th is numbered i and holds page i of the source and nothing else.
C23_SplitEveryPage ==
    (SplitCall /\ call.page_ranges = <<>>)
        => /\ ~call.raised
           /\ Len(call.outputs) = Len(SourcePages)
           /\ \A i \in 1..Len(SourcePages) :
                  /\ call.outputs[i] = SplitPagePath(SplitSource, i)
                  /\ call.outputs[i] \in disk
                  /\ pages[call.outputs[i]] = <<SourcePages[i]>>
           /\ disk = call.before \cup Range(call.outputs)

\* A PDF of three or more pages was split into one file per page.
C23_Witness ==
    /\ SplitCall
    /\ call.page_ranges = <<>>
    /\ Len(SourcePages) >= 3
    /\ Len(call.outputs) = Len(SourcePages)

\* 1 <= start <= end <= totalPages
ValidRange(rg, totalPages) ==
    1 <= rg[1] /\ rg[1] <= rg[2] /\ rg[2] <= totalPages

\* The position of the first invalid range of the call, 0 when all are valid.
FirstInvalid ==
    LET bad_at == {i \in 1..Len(call.page_ranges) :
                       ~ValidRange(call.page_ranges[i], Len(SourcePages))}
    IN IF bad_at = {} THEN 0
       ELSE CHOOSE i \in bad_at : \A j \in bad_at : i <= j

\* The ranges split_pdf reached and accepted.
AcceptedRanges ==
    IF FirstInvalid = 0 THEN 1..Len(call.page_ranges) ELSE 1..(FirstInvalid - 1)

\* C24: split_pdf with ranges accepts (start, end) exactly when
\* 1 <= start <= end <= totalPages and writes one output with the pages
\* start..end in order; a range outside that raises an error that names the
\* range and the page count of the source.
C24_RangesValidated ==
    (SplitCall /\ call.page_ranges /= <<>>)
        => /\ call.raised <=> FirstInvalid /= 0
           /\ \A i \in AcceptedRanges :
                  LET rg == call.page_ranges[i]
                      out == SplitRangePath(SplitSource, rg[1], rg[2])
                  IN /\ out \in disk
                     /\ pages[out] = SubSeq(SourcePages, rg[1], rg[2])
                     /\ ~call.raised => call.outputs[i] = out
           /\ ~call.raised => Len(call.outputs) = Len(call.page_ranges)
           /\ call.raised
                  => LET rg == call.page_ranges[FirstInvalid]
                     IN /\ call.error[1] = "Invalid page range: "
                        /\ call.error[2] = rg[1]
                        /\ call.error[4] = rg[2]
                        /\ call.error[6] = Len(SourcePages)

\* A range that ends beyond the last page of a PDF of two or more pages was
\* rejected with the page count in the message.
C24_Witness ==
    /\ SplitCall
    /\ Len(SourcePages) >= 2
    /\ call.page_ranges = <<<<2, Len(SourcePages) + 1>>>>
    /\ call.raised
    /\ call.error = InvalidPageRangeError(2, Len(SourcePages) + 1, Len(SourcePages))

\* C25: when the first invalid range is the k-th, split_pdf raises there and
\* the files written are those of the ranges 1..k-1 and no others.
C25_NothingWrittenPastInvalid ==
    (SplitCall /\ call.page_ranges /= <<>> /\ FirstInvalid /= 0)
        => /\ call.raised
           /\ call.error = InvalidPageRangeError(
                               call.page_ranges[FirstInvalid][1],
                               call.page_ranges[FirstInvalid][2],
                               Len(SourcePages))
           /\ disk \ call.before
                  = {SplitRangePath(SplitSource, call.page_ranges[i][1],
                                    call.page_ranges[i][2]) :
                         i \in 1..(FirstInvalid - 1)}

\* A valid range, then an invalid one: one file was written and the call
\* raised.
C25_Witness ==
    /\ SplitCall
    /\ Len(call.page_ranges) = 2
    /\ FirstInvalid = 2
    /\ call.raised
    /\ Cardinality(disk \ call.before) = 1

\* The last direct call went through a wrapper of the bot with a
\* CompressionLevel, and a compressed copy of an input was saved.
CompressedWithLevel ==
    /\ call.f \in {"convert_single_image", "convert_multiple_images"}
    /\ call.compress \in Levels
    /\ \E i \in 1..Len(call.saved_quality) : call.saved_quality[i] /= 0

\* C26: HIGH is quality 95, MEDIUM 85 and LOW 70; every level has a quality
\* and a label; and the quality the converter saves a compressed copy with,
\* looked up under the level's name, is the quality of the level.
C26_QualityMapping ==
    /\ CompressionLevel_quality("HIGH") = 95
    /\ CompressionLevel_quality("MEDIUM") = 85
    /\ CompressionLevel_quality("LOW") = 70
    /\ \A level \in Levels :
           /\ CompressionLevel_quality(level) \in 1..100
           /\ CompressionLevel_title(level)
                  \in {"High Quality (95%)", "Medium Quality (85%)",
                       "Low Quality (70%)"}
           /\ bot_types_CompressionLevel_quality(level)
                  = CompressionLevel_quality(level)
           /\ bot_types_CompressionLevel_title(level)
                  = CompressionLevel_title(level)
           /\ CompressionLevel_value(level) \in DOMAIN COMPRESSION_QUALITY
           /\ COMPRESSION_QUALITY[CompressionLevel_value(level)]
                  = CompressionLevel_quality(level)
    /\ CompressedWithLevel
           => \A i \in 1..Len(call.saved_quality) :
                  call.saved_quality[i]
                      \in {0, CompressionLevel_quality(call.compress)}

\* Two images were converted at LOW and both copies were saved at 70.
C26_Witness ==
    /\ CompressedWithLevel
    /\ call.compress = "LOW"
    /\ call.saved_quality = <<70, 70>>

\* The last direct call was convert_image_to_pdf on a supported file that
\* exists, with a quality name that is not in the table.
UnrecognizedLevelCall ==
    /\ call.f = "convert_image_to_pdf"
    /\ call.compress \notin DOMAIN COMPRESSION_QUALITY \cup {"none"}
    /\ call.image_paths[1] \in call.before
    /\ is_supported_format(call.image_paths[1])

\* C27: a level that is not high, medium or low is treated as medium,
\* quality 85, and the conversion goes on: the call fails only if the
\* encoder fails.
C27_UnknownLevelIsMedium ==
    UnrecognizedLevelCall
        => /\ call.saved_quality \in {<<0>>, <<COMPRESSION_QUALITY["medium"]>>}
           /\ call.compOK /= {} => call.saved_quality = <<85>>
           /\ call.raised => call.error = EncoderError
           /\ ~call.raised => /\ call.outputs = <<SinglePdfPath(call.image_paths[1])>>
                              /\ call.outputs[1] \in disk

\* An image was converted with the level "ultra": the copy was saved at 85
\* and the PDF was written.
C27_Witness ==
    /\ UnrecognizedLevelCall
    /\ call.compress = "ultra"
    /\ call.saved_quality = <<85>>
    /\ ~call.raised
    /\ call.outputs /= <<>>

(***************************************************************************)
(* C28: when the delivery of a finished PDF times out, the user is sent a  *)
(* timeout-specific message that is not the conversion-error message, the  *)
(* conversion result is still a success, the PDF is still on disk, and the *)
(* finally block has emptied temp_files and called os.unlink on every      *)
(* file that was pending.                                                  *)
(***************************************************************************)
DeliveryTimedOut(t) ==
    /\ t.pc = "done"
    /\ ConvertNowEntered(t)
    /\ t.out = "timeout"

Delivering(t) == t.pc = "cn_delivering"

Delivered(t) ==
    /\ t.pc = "done"
    /\ ConvertNowEntered(t)
    /\ t.out = "ok"

C29_DebugKeepsArtifact ==
    \A k \in Slots :
        LET t == task[k]
            pdf == t.result.pdf_path
        IN /\ Delivering(t) =>
                /\ pdf \in disk
                /\ debug_mode <=> pdf = DebugPdfPath(t.u)
           /\ Delivered(t) =>
                IF debug_mode
                THEN pdf = DebugPdfPath(t.u) /\ pdf \in disk
                ELSE pdf /= DebugPdfPath(t.u) /\ pdf \notin disk

\* A PDF in the debug directory has been delivered and is still there.
C29_Witness ==
    \E k \in Slots :
        /\ Delivered(task[k])
        /\ debug_mode
        /\ task[k].result.pdf_path = DebugPdfPath(task[k].u)
        /\ task[k].result.pdf_path \in disk

\* With debug mode off a PDF has been delivered and removed.
C29_WitnessRemoved ==
    \E k \in Slots :
        /\ Delivered(task[k])
        /\ ~debug_mode
        /\ task[k].result.pdf_path /= NoFile
        /\ task[k].result.pdf_path \notin disk

(***************************************************************************)
(* C30: in convert_now, merge, split, compress_pdf, ocr, ocr_image and     *)
(* url2pdf, an exception raised by the converter or tool call does not     *)
(* leave the handler: the handler goes on to send an error message that    *)
(* holds the text of the exception unchanged, and it ends by returning.    *)
(***************************************************************************)
ToolHandlers == {"merge", "split", "compress_pdf", "ocr", "ocr_image", "url2pdf"}

\* The converter or tool call of the invocation t raised.
CallRaised(t) ==
    /\ ConvertNowEntered(t) \/ t.h \in ToolHandlers
    /\ t.error /= NoError

ErrorReplies == {"conversion_error", "tool_failed", "ocr_failed"}

C30_WitnessConvertNow ==
    \E k \in Slots :
        /\ CallRaised(task[k])
        /\ task[k].pc = "done"
        /\ ConvertNowEntered(task[k])
        /\ task[k].text = conversion_error(task[k].error)

(***************************************************************************)
(* C31: /ocr and /ocr_image issued without an argument pass the tool the   *)
(* 3-letter code of the locale of the issuing user's session; issued with  *)
(* an argument they pass that argument.                                    *)
(***************************************************************************)
\* The 3-letter OCR code of a locale (the codes the ocr_usage message of
\* messages.py gives for each language).
locale_ocr_code(lang) ==
    CASE lang = "EN" -> "eng"
      [] lang = "DE" -> "deu"
      [] lang = "FA" -> "fas"

\* The invocation t is an OCR command that has chosen its language.
OcrIssued(t) == t.h \in {"ocr", "ocr_image"} /\ t.language /= "none"

C31_OcrLanguageFromLocale ==
    \A k \in Slots :
        LET t == task[k] IN
        OcrIssued(t) =>
            t.language = IF t.args = <<>>
                         THEN locale_ocr_code(user_sessions[t.u].language)
                         ELSE t.args[1]

(***************************************************************************)
(* C32: a document is dispatched by the lower-cased suffix of its name.  A *)
(* supported image suffix leads to the file being appended to temp_files,  *)
(* .pdf to its being appended to pdf_files; an office, text or HTML suffix *)
(* gets the document accepted for its converter with both pending lists    *)
(* as they were; any other suffix is answered with the unsupported-format  *)
(* message and changes nothing.                                            *)
(***************************************************************************)
DocumentHandlers == {"image_document", "document"}

\* The session of user u, as a lookup in the store sessions would find it.
SessionOf(sessions, u) == get_user_session(sessions, u)[u]

C32_Step ==
    \A k \in Slots :
        LET t == task[k]
            t1 == task'[k]
            e == t1.file_extension
            before == SessionOf(user_sessions, t1.u)
            after == SessionOf(user_sessions', t1.u)
        IN /\ (t.pc = "idle" /\ t1.h \in DocumentHandlers) =>
                IF e \in SUPPORTED_FORMATS THEN t1.pc = "hi_download"
                ELSE IF e = ".pdf" THEN t1.pc = "hp_download"
                ELSE /\ after = before
                     /\ disk' = disk
                     /\ IF e \in DOCUMENT_FORMATS \cup TEXT_FORMATS \cup HTML_FORMATS
                        THEN t1.out /= "raised" /\ t1.reply = "document_received"
                        ELSE t1.pc = "done" /\ t1.reply = "unsupported_format"
           /\ (t.h \in DocumentHandlers /\ t.pc = "hi_download"
                 /\ t1.pc = "done" /\ t1.out = "ok") =>
                /\ after.temp_files = Append(before.temp_files, t.path)
                /\ after.pdf_files = before.pdf_files
           /\ (t.h \in DocumentHandlers /\ t.pc = "hp_download"
                 /\ t1.pc = "done" /\ t1.out = "ok") =>
                /\ after.pdf_files = Append(before.pdf_files, t.path)
                /\ after.temp_files = before.temp_files

C32_DispatchByExtension == [][C32_Step]_vars

(***************************************************************************)
(* C33: convert_document and convert_html_file fail in a fixed order: a    *)
(* missing input is reported before an unsupported suffix, an unsupported  *)
(* suffix before a missing tool, and a missing tool before the tool is     *)
(* run; a non-zero exit raises an error that carries the captured output   *)
(* of the tool; in each of these failures convert_document neither creates *)
(* nor replaces a file at the output path.                                 *)
(***************************************************************************)
DocCall == call.f \in {"convert_document", "convert_html_file"}

DocMissing == call.doc_path \notin call.before

DocSupported ==
    lower(call.doc_path[1]) \in IF call.f = "convert_document"
                                 THEN DOCUMENT_FORMATS ELSE HTML_FORMATS

\* The output path of the call.
DocOutput ==
    IF call.output_path = NoFile THEN DocPdfPath(call.doc_path)
    ELSE call.output_path

C33_FailurePrecedence ==
    DocCall =>
        /\ DocMissing =>
              /\ call.raised /\ ~call.ran
              /\ call.error = IF call.f = "convert_document"
                               THEN DocumentNotFoundError(call.doc_path)
                               ELSE HtmlNotFoundError(call.doc_path)
        /\ (~DocMissing /\ ~DocSupported) =>
              /\ call.raised /\ ~call.ran
              /\ call.error = IF call.f = "convert_document"
                               THEN UnsupportedDocumentError(call.doc_path)
                               ELSE UnsupportedHtmlError(call.doc_path)
        /\ (~DocMissing /\ DocSupported /\ ~call.tool) =>
              /\ call.raised /\ ~call.ran
              /\ call.error = IF call.f = "convert_document"
                               THEN SofficeMissingError
                               ELSE WkhtmltopdfMissingError
        /\ (~DocMissing /\ DocSupported /\ call.tool) => call.ran
        /\ (call.ran /\ call.run.returncode /= 0) =>
              /\ call.raised
              /\ captured(call.run) /= "" =>
                    call.error[Len(call.error)] = captured(call.run)
        /\ (call.f = "convert_document" /\ call.raised) =>
              /\ DocOutput \notin call.written
              /\ disk = call.before

\* LibreOffice was run on a supported document, exited with an error and
\* left a diagnostic; a file was at the output path before the call.
C33_Witness ==
    /\ call.f = "convert_document"
    /\ call.ran /\ call.raised
    /\ call.run.returncode /= 0
    /\ call.error = <<"LibreOffice conversion failed: ", "diagnostic">>
    /\ DocOutput \in call.before

(***************************************************************************)
(* C34: the compression setting of a session is always one of HIGH,        *)
(* MEDIUM, LOW; it is MEDIUM when the session is created, and the only     *)
(* step that changes it is the entry of /compress_high, /compress_medium   *)
(* or /compress_low for that user, which sets it to the level of the       *)
(* command: conversions, /clear, arriving files and the PDF tools leave it *)
(* as it was.                                                              *)
(***************************************************************************)
\* The step starts /compress_<level> for user u.
SetsCompression(u, level) ==
    \E k \in Slots :
        /\ task[k].pc = "idle"
        /\ task'[k].h = "set_compression"
        /\ task'[k].u = u
        /\ task'[k].level = level

C34_Step ==
    \A u \in DOMAIN user_sessions' :
        LET new == user_sessions'[u].compression_setting
            old == IF u \in DOMAIN user_sessions
                   THEN user_sessions[u].compression_setting
                   ELSE "MEDIUM"
        IN /\ new \in Levels
           /\ new /= old => SetsCompression(u, new)

C34_CompressionSettingPersists == [][C34_Step]_vars

\* A /convert_now issued after the handler of /compress_low had ended has
\* converted and delivered at the level LOW, which is still the setting.
C34_Witness ==
    \E k \in Slots :
        LET t == task[k]
        IN /\ t.pc = "done"
           /\ t.h = "convert_now"
           /\ t.out = "ok"
           /\ t.result.compression_used = "LOW"
           /\ user_sessions[t.u].compression_setting = "LOW"

(***************************************************************************)
(* C35: validation comes before every side effect of a conversion.  When   *)
(* an input of convert_single_image or convert_multiple_images is missing  *)
(* or has an unsupported suffix, the call raises the error of the first    *)
(* such input, in the order given, and has created no compressed copy and  *)
(* no output: the disk is as it was before the call.                       *)
(***************************************************************************)
ImageCall ==
    call.f \in {"convert_single_image", "convert_image_to_pdf",
                "convert_multiple_images"}

\* The positions of the inputs of the call that do not pass validation.
InvalidInputs ==
    {i \in DOMAIN call.image_paths :
        \/ call.image_paths[i] \notin call.before
        \/ ~is_supported_format(call.image_paths[i])}

FirstInvalidInput ==
    call.image_paths[CHOOSE i \in InvalidInputs : \A j \in InvalidInputs : i <= j]

C35_ValidationFirst ==
    (ImageCall /\ InvalidInputs /= {}) =>
        /\ call.raised
        /\ call.error = IF FirstInvalidInput \notin call.before
                         THEN FileNotFoundError(FirstInvalidInput)
                         ELSE UnsupportedFormatError(FirstInvalidInput)
        /\ disk = call.before
        /\ call.encoded = <<>>
        /\ call.saved_quality = <<>>

\* convert_multiple_images with a compression level: the first input is
\* valid and could be compressed, the second has an unsupported suffix.
C35_Witness ==
    /\ call.f = "convert_multiple_images"
    /\ call.compress /= "none"
    /\ Len(call.image_paths) = 2
    /\ InvalidInputs = {2}
    /\ call.image_paths[2] \in call.before
    /\ call.image_paths[1] \in call.compOK
    /\ call.raised
    /\ disk = call.before

\* The same in convert_now_command: a conversion that fails validation
\* changes nothing on disk, the handler reports the error of the converter
\* and ends with temp_files empty.
C35_HandlerStep ==
    \A k \in Slots :
        LET t == task[k]
            t1 == task'[k]
            e == t1.result.error_message
        IN (t.pc = "cn_processing" /\ e /= NoError /\ e /= EncoderError
              /\ e /= NoImagePathsError) =>
                /\ disk' = disk
                /\ t1.encoded = <<>>
                /\ t1.pc = "cn_final_await"
                /\ t1.reply = "conversion_error"
                /\ t1.text = conversion_error(e)

C35_HandlerReportsValidationError ==
    /\ [][C35_HandlerStep]_vars
    /\ [](\A k \in Slots :
            (task[k].pc = "done" /\ task[k].out = "failure_result")
                => user_sessions[task[k].u].temp_files = <<>>)

(***************************************************************************)
(* C36: a photo that yields a readable image adds exactly one path, at the *)
(* end of temp_files, the earlier entries as they were; a photo whose      *)
(* download is not a readable image leaves temp_files as it was before the *)
(* event, and its temporary file is deleted.                               *)
(***************************************************************************)
\* The handler of a photo has ended in the invocation t.
ImageEventEnded(t) == t.pc = "done" /\ t.h = "image"

\* The download of the invocation t was not a readable image.
NotReadable(t) == t.reply = "invalid_image"

C36_ImageEventLedger ==
    \A k \in Slots :
        LET t == task[k]
            temp_files == user_sessions[t.u].temp_files
        IN ImageEventEnded(t) =>
             /\ t.out = "ok" =>
                   /\ temp_files = Append(t.entry, t.given[1])
                   /\ t.given[1] \notin Range(t.entry)
                   /\ t.given[1] \in disk
             /\ NotReadable(t) =>
                   /\ temp_files = t.entry
                   /\ t.given[1] \notin disk

(***************************************************************************)
(* C37: /ocr_image reads only the image received last, but when it ends    *)
(* (text found, no text, or the OCR failed) the temp_files of the user are *)
(* empty: every pending image, the ones that were not read included, has   *)
(* left the list and has been deleted, and pdf_files is as it was.         *)
(***************************************************************************)
\* The invocation in slot k is a /ocr_image that found pending images.
OcrImageRunning(t) == t.h = "ocr_image" /\ t.out /= "no_input"

C37_Step ==
    \A k \in Slots :
        LET t == task[k]
            t1 == task'[k]
        IN /\ (OcrImageRunning(t1) /\ t.pc = "idle") =>
                /\ t1.entry = user_sessions'[t1.u].temp_files
                /\ t1.path = t1.entry[Len(t1.entry)]
           /\ (OcrImageRunning(t1) /\ t1.pc /= "idle") =>
                /\ t1.given \in {<<>>, <<t1.entry[Len(t1.entry)]>>}
                /\ user_sessions'[t1.u].pdf_files = user_sessions[t1.u].pdf_files
           /\ (OcrImageRunning(t1) /\ t1.pc = "done" /\ t.pc /= "done") =>
                /\ t1.out \in {"ok", "tool_error", "exception"}
                /\ user_sessions'[t1.u].temp_files = <<>>
                /\ \A p \in Range(t1.entry) : p \notin disk' \/ p \in t1.failing

C37_OcrImageClearsAllInputs == [][C37_Step]_vars

\* A /ocr_image has ended after reading the last of two pending images; the
\* image it did not read is gone from the list and from the disk.
C37_Witness ==
    \E k \in Slots :
        LET t == task[k]
        IN /\ t.pc = "done"
           /\ OcrImageRunning(t)
           /\ Len(t.entry) >= 2
           /\ t.given = <<t.entry[2]>>
           /\ t.entry[1] /= t.entry[2]
           /\ t.entry[1] \notin disk
           /\ user_sessions[t.u].temp_files = <<>>

(***************************************************************************)
(* C38: the image converter never deletes a file its caller handed in.     *)
(* After convert_single_image or convert_multiple_images has returned or   *)
(* raised, with or without a compression level, every input that existed   *)
(* before the call still exists, the inputs whose compression failed and   *)
(* fell back to the original file included; only compressed copies are     *)
(* removed.                                                                *)
(***************************************************************************)
\* The inputs of the last direct call that existed when it was made.
OriginalInputs == Range(call.image_paths) \cap call.before

C38_InputsSurvive ==
    ImageCall
        => /\ OriginalInputs \subseteq disk
           /\ \A p \in call.before \ disk :
                  \E i \in 1..Len(call.image_paths) :
                      p = CompressedPath(call.image_paths[i])

\* The part of C38 the code keeps: convert_single_image leaves its input.
C38_SingleInputSurvives ==
    call.f = "convert_single_image" => OriginalInputs \subseteq disk

(***************************************************************************)
(* C39: a conversion that fails leaves no output file.  Whenever           *)
(* convert_single_image or convert_multiple_images raises (an input is     *)
(* missing, has an unsupported suffix, or the encoder fails on a corrupt   *)
(* image), no file exists at the output path that did not exist before the *)
(* call.                                                                   *)
(***************************************************************************)
\* The output paths of the last direct call: it was made without an
\* output_path, so the converter chose the default.
OutputPaths ==
    IF call.f = "convert_multiple_images" THEN {CombinedPdfPath}
    ELSE {SinglePdfPath(call.image_paths[i]) : i \in 1..Len(call.image_paths)}

\* The last direct call was a conversion and it raised.
FailedConversion == ImageCall /\ call.raised

C39_FailureLeavesNoOutput ==
    FailedConversion => (OutputPaths \cap disk) \subseteq call.before

\* The part of C39 the code keeps: a conversion that fails in validation
\* leaves the disk as it was.
C39_ValidationFailureLeavesNoOutput ==
    (FailedConversion /\ call.encoded = <<>>) => disk = call.before

(***************************************************************************)
(* C40: the output PDFs of different users never collide.  When            *)
(* /convert_now runs for two users and their handlers interleave at their  *)
(* awaits, debug mode off and no output path given, the PDF of each        *)
(* conversion is a file of its own: no handler writes over, delivers or    *)
(* deletes the PDF that was produced for the other user.                   *)
(***************************************************************************)
\* The invocation t has produced a PDF and is suspended in its delivery.
HoldsOutput(t) == t.pc = "cn_delivering" /\ t.result.success

C40_Step ==
    \A k1 \in Slots : \A k2 \in Slots \ {k1} :
        LET o == task[k2]
        IN (/\ ~debug_mode
            /\ task'[k1] /= task[k1]
            /\ HoldsOutput(o)
            /\ o.u /= task'[k1].u)
           => /\ HoldsOutput(task'[k1])
                    => task'[k1].result.pdf_path /= o.result.pdf_path
              /\ o.result.pdf_path \in disk => o.result.pdf_path \in disk'

C40_SingleStep ==
    \A k1 \in Slots : \A k2 \in Slots \ {k1} :
        LET o == task[k2]
        IN (/\ ~debug_mode
            /\ task'[k1] /= task[k1]
            /\ HoldsOutput(o)
            /\ o.u /= task'[k1].u
            /\ o.result.pdf_path /= CombinedPdfPath)
           => /\ HoldsOutput(task'[k1])
                    => task'[k1].result.pdf_path /= o.result.pdf_path
              /\ o.result.pdf_path \in disk => o.result.pdf_path \in disk'

C40_SingleOutputsNeverCollide == [][C40_SingleStep]_vars
====
